---- MODULE Spec2Model ----
(***************************************************************************)
(* A model of the buffered I/O layer vendored under src/.deno (Deno std    *)
(* 0.92 io/bufio.ts and bytes/mod.ts): BufWriter / BufWriterSync,          *)
(* BufReader, readDelim with createLPS, and the byte-slice helpers.        *)
(*                                                                         *)
(* Every `await` of the source is a suspension point; an action of the     *)
(* model is the code that runs between two suspension points (JavaScript   *)
(* runs it to completion), or the answer of the underlying source or sink. *)
(* The underlying source and sink are the environment: their answers are   *)
(* chosen with \E.                                                         *)
(***************************************************************************)
EXTENDS Integers, Sequences, FiniteSets, TLC

\* ------------------------------------------------------------------ bounds
MaxCap == 3        \* BufWriter capacities 1..MaxCap are constructed
MaxData == 4       \* a write() is given 0..MaxData bytes
MaxTotal == 6      \* bytes handed to write() over one run
MaxDelimLen == 3   \* readDelim is given delimiters of 1..MaxDelimLen bytes
MaxStreamLen == 5  \* readDelim's source holds 0..MaxStreamLen bytes
MaxSrcExtra == 2   \* BufReader's source holds up to MIN_BUF_SIZE + MaxSrcExtra bytes
MaxResets == 1     \* BufReader.reset() is called at most MaxResets times
MaxCalls == 3      \* a run makes at most MaxCalls calls of the BufReader
MaxFaults == 1     \* the underlying reader fails at most MaxFaults times
MaxBytesLen == 3   \* arrays given to the bytes functions hold 0..MaxBytesLen bytes
MaxCount == 3      \* repeat() is called with a count of -1..MaxCount
MaxBufs == 3       \* concat() is called with 0..MaxBufs arrays
MaxPieceLen == 2   \* each of them holds 0..MaxPieceLen bytes
MaxIters == 2      \* a MuxAsyncIterator gets up to MaxIters iterators
MaxVals == 2       \* each of them yields 0..MaxVals values
MaxErrVals == 1    \* 0..MaxErrVals values where a next() may reject

\* ----------------------------------------------------------------- helpers
Min(a, b) == IF a < b THEN a ELSE b
Max(a, b) == IF a > b THEN a ELSE b

Range(s) == {s[i] : i \in 1..Len(s)}

\* new Uint8Array(n): n zero bytes
Zeros(n) == [i \in 1..n |-> 0]

\* a.subarray(from) / a.subarray(0, to), 0-based bounds of the source
DropFirst(s, n) == SubSeq(s, n + 1, Len(s))
TakeFirst(s, n) == SubSeq(s, 1, n)

\* ------------------------------------------------------- bytes/mod.ts copy
\* off = Math.max(0, Math.min(off, dst.byteLength))
CopyOffNoFloor(dst, off) == Min(off, Len(dst))
CopyOff(dst, off) == Max(0, Min(off, Len(dst)))

CopyCountUnclamped(src, dst, off) == Len(src)
\* the number of bytes copy() writes: src is cut to dst.byteLength - off
CopyCount(src, dst, off) == Min(Len(src), Len(dst) - CopyOff(dst, off))

\* copy(src, dst, off): the new content of dst and the count returned
Copy(src, dst, off) ==
  LET o == CopyOff(dst, off)
      n == CopyCount(src, dst, off)
  IN  [n   |-> n,
       dst |-> [i \in 1..Max(Len(dst), o + n) |->
                  IF i > o /\ i <= o + n THEN src[i - o] ELSE dst[i]]]

\* ================================================================ BufWriter
\* BufWriter and BufWriterSync share AbstractBufBase and have the same text
\* up to `await`; with calls issued one at a time they take the same steps.
VARIABLES
  wsize,     \* the size the writer was constructed with (a size >= 1)
  wbuf,      \* this.buf, the whole array
  used,      \* this.usedBufferBytes
  werr,      \* this.err
  sink,      \* the bytes the current underlying writer has received
  wpc,       \* per caller: where its call is suspended
  wdata,     \* per caller: the local `data` (what is still to be written)
  wtotal,    \* per caller: the local totalBytesWritten
  wn,        \* per caller: the local numBytesWritten
  wret,      \* per caller: the call in progress or its outcome
  wcall,     \* per caller: the data its write() was called with
  touched,   \* per caller: the call has called the underlying writer
  wview,     \* per caller: the subarray its flush() gave to writeAll
  overlapped,\* a call was started while another call was suspended
  accepted,  \* all data given to write() since construction or reset
  nextTag    \* bytes given to write() so far; byte k of the run has value k

wvars == <<wsize, wbuf, used, werr, sink, wpc, wdata, wtotal, wn, wret,
           wcall, touched, wview, overlapped, accepted, nextTag>>

\* readDelim and createLPS
VARIABLES
  dpat,      \* delim, the delimiter
  dsrc,      \* the bytes the reader holds
  dpos,      \* how many of them the reader has delivered
  dlps,      \* createLPS: lps (then delimLPS)
  dpe,       \* createLPS: prefixEnd
  di,        \* createLPS: i
  dinput,    \* inputBuffer.bytes() / sliceToProcess
  dinspect,  \* inspectIndex
  dmatch,    \* matchIndex
  dout,      \* the chunks yielded so far
  dpc        \* where readDelim is: "lps", "read", "scan", "done", "aborted"

dvars == <<dpat, dsrc, dpos, dlps, dpe, di, dinput, dinspect, dmatch, dout, dpc>>

\* BufReader, its underlying reader and the call in progress
VARIABLES
  buf,       \* this.buf, the whole array
  r,         \* this.r
  w,         \* this.w
  eof,       \* this.eof
  src,       \* the bytes the current underlying reader holds
  pos,       \* how many of them it has delivered
  gen,       \* how many times reset() has rebound the BufReader
  rpc,       \* where the call in progress is suspended, or "idle"
  rarg,      \* its argument: p.byteLength, n or delim
  rloc,      \* its locals
  rret,      \* the call in progress, or the outcome of the last call
  taken,     \* how many bytes of src the caller has been given
  faults,    \* how many times the underlying readers have failed
  calls,     \* how many calls of the BufReader the run has made
  snap,      \* the array the last BufferFullError of readSlice gave away,
             \* as it was then
  live       \* that array is still this.buf

rvars ==
  <<buf, r, w, eof, src, pos, gen, rpc, rarg, rloc, rret, taken, faults,
    calls, snap, live>>

\* a BufReader that is not part of the run
ReaderOff ==
  /\ buf = <<>> /\ r = 0 /\ w = 0 /\ eof = FALSE /\ src = <<>> /\ pos = 0
  /\ gen = 0 /\ rpc = "off" /\ rarg = 0 /\ rloc = <<>> /\ rret = <<>>
  /\ taken = 0 /\ faults = 0 /\ calls = 0 /\ snap = <<>> /\ live = FALSE

Callers == {1, 2}
NoErr == "null"
Errors == {"E1", "E2"}

NoCall == [op |-> "none", kind |-> "none", val |-> 0, err |-> NoErr]
Pending(op) == [op |-> op, kind |-> "pending", val |-> 0, err |-> NoErr]
Returned(op, v) == [op |-> op, kind |-> "ret", val |-> v, err |-> NoErr]
Thrown(op, e) == [op |-> op, kind |-> "throw", val |-> 0, err |-> e]

\* the bytes of the next write(): distinct values, so that a gap, a
\* duplicate or a reordering shows in the sink
Fresh(n) == [i \in 1..n |-> nextTag + i]

AvailableWhole(b, u) == Len(b)
\* available(): this.buf.byteLength - this.usedBufferBytes
Available(b, u) == Len(b) - u

FailedNever(e) == FALSE
\* if (this.err !== null) throw this.err;
Failed(e) == e # NoErr

DirectAlways(u) == TRUE
DirectOKSmall(u) == u <= 1
\* if (this.buffered() === 0): large write, empty buffer
DirectOK(u) == u = 0

FlushRegionWhole(b, u) == b
\* this.buf.subarray(0, this.usedBufferBytes), what flush hands to writeAll
FlushRegion(b, u) == TakeFirst(b, u)

FreshBufUsed(b, u) == Zeros(u)
\* this.buf = new Uint8Array(this.buf.length)
FreshBuf(b, u) == Zeros(Len(b))

RestKeepsOne(d, n) == DropFirst(d, n - 1)
\* data = data.subarray(numBytesWritten)
Rest(d, n) == DropFirst(d, n)

\* write() from the top of its while loop to the next suspension point or
\* to its return, from buffer b, used count u, remaining data d, total t
WriteRun(b, u, d, t) ==
  IF Len(d) > Available(b, u)
  THEN IF DirectOK(u)
       THEN [pc |-> "direct", buf |-> b, used |-> u, data |-> d,
             total |-> t, n |-> 0]
       ELSE LET cp == Copy(d, b, u)
            IN  [pc |-> "spill", buf |-> cp.dst, used |-> u + cp.n,
                 data |-> d, total |-> t, n |-> cp.n]
  ELSE LET cp == Copy(d, b, u)
       IN  [pc |-> "idle", buf |-> cp.dst, used |-> u + cp.n,
            data |-> <<>>, total |-> t + cp.n, n |-> cp.n]

\* the writer's state after WriteRun's result s, for caller c and error e
\* (flush() called from write() rethrows a latched error before any write)
WriteGoes(c, s, e) ==
  /\ wbuf' = s.buf
  /\ used' = s.used
  /\ wn' = [wn EXCEPT ![c] = s.n]
  /\ wview' = [wview EXCEPT ![c] = IF s.pc = "spill" /\ ~Failed(e)
                                   THEN FlushRegion(s.buf, s.used) ELSE <<>>]
  /\ IF s.pc = "spill" /\ Failed(e)
     THEN /\ wpc' = [wpc EXCEPT ![c] = "idle"]
          /\ wret' = [wret EXCEPT ![c] = Thrown("write", e)]
          /\ wdata' = [wdata EXCEPT ![c] = <<>>]
          /\ wtotal' = [wtotal EXCEPT ![c] = 0]
     ELSE /\ wpc' = [wpc EXCEPT ![c] = s.pc]
          /\ wret' = [wret EXCEPT ![c] =
                        IF s.pc = "idle" THEN Returned("write", s.total)
                        ELSE Pending("write")]
          /\ wdata' = [wdata EXCEPT ![c] = s.data]
          /\ wtotal' = [wtotal EXCEPT ![c] = IF s.pc = "idle" THEN 0 ELSE s.total]

Quiet == \A c \in Callers : wpc[c] = "idle"

\* caller c starts a call: it overlaps when another call is suspended
CallStarts(c) == overlapped' = (overlapped \/ \E d \in Callers \ {c} : wpc[d] # "idle")

\* no readDelim is running
DelimOff ==
  /\ dpat = <<>> /\ dsrc = <<>> /\ dpos = 0 /\ dlps = <<>> /\ dpe = 0 /\ di = 0
  /\ dinput = <<>> /\ dinspect = 0 /\ dmatch = 0 /\ dout = <<>> /\ dpc = "off"

InitWriter ==
  /\ wsize \in 1..MaxCap
  /\ wbuf = Zeros(wsize)        \* this.buf = new Uint8Array(size)
  /\ used = 0
  /\ werr = NoErr
  /\ sink = <<>>
  /\ wpc = [c \in Callers |-> "idle"]
  /\ wdata = [c \in Callers |-> <<>>]
  /\ wtotal = [c \in Callers |-> 0]
  /\ wn = [c \in Callers |-> 0]
  /\ wret = [c \in Callers |-> NoCall]
  /\ wcall = [c \in Callers |-> <<>>]
  /\ touched = [c \in Callers |-> FALSE]
  /\ wview = [c \in Callers |-> <<>>]
  /\ overlapped = FALSE
  /\ accepted = <<>>
  /\ nextTag = 0

\* write(data), up to its first suspension point
WriteCall(c, len) ==
  /\ wpc[c] = "idle"
  /\ CallStarts(c)
  /\ nextTag + len <= MaxTotal
  /\ touched' = [touched EXCEPT ![c] = FALSE]
  /\ wcall' = [wcall EXCEPT ![c] = Fresh(len)]
  /\ UNCHANGED <<wsize, werr, sink>>
  /\ IF Failed(werr)
     THEN /\ wret' = [wret EXCEPT ![c] = Thrown("write", werr)]
          /\ UNCHANGED <<wbuf, used, wpc, wdata, wtotal, wn, wview, accepted,
                         nextTag>>
     ELSE /\ accepted' = accepted \o Fresh(len)
          /\ nextTag' = nextTag + len
          /\ IF len = 0
             THEN /\ wret' = [wret EXCEPT ![c] = Returned("write", 0)]
                  /\ UNCHANGED <<wbuf, used, wpc, wdata, wtotal, wn, wview>>
             ELSE WriteGoes(c, WriteRun(wbuf, used, Fresh(len), 0), werr)

\* the underlying writer is called with `data` (the call is made as write()
\* suspends on it) and accepts its first n bytes
DirectDone(c, n) ==
  /\ UNCHANGED overlapped
  /\ wpc[c] = "direct"
  /\ n \in 1..Len(wdata[c])
  /\ sink' = sink \o TakeFirst(wdata[c], n)
  /\ touched' = [touched EXCEPT ![c] = TRUE]
  /\ WriteGoes(c, WriteRun(wbuf, used, Rest(wdata[c], n), wtotal[c] + n), werr)
  /\ UNCHANGED <<wsize, werr, wcall, accepted, nextTag>>

\* the underlying writer throws e: this.err = e; throw e
DirectFail(c, e) ==
  /\ UNCHANGED overlapped
  /\ wpc[c] = "direct"
  /\ werr' = e
  /\ touched' = [touched EXCEPT ![c] = TRUE]
  /\ wpc' = [wpc EXCEPT ![c] = "idle"]
  /\ wret' = [wret EXCEPT ![c] = Thrown("write", e)]
  /\ wdata' = [wdata EXCEPT ![c] = <<>>]
  /\ wtotal' = [wtotal EXCEPT ![c] = 0]
  /\ UNCHANGED <<wsize, wbuf, used, sink, wn, wcall, wview, accepted, nextTag>>

\* writeAll of the flush inside write() succeeded: the rest of flush(), then
\* totalBytesWritten += n, data = data.subarray(n) and the loop again
SpillDone(c) ==
  /\ UNCHANGED overlapped
  /\ wpc[c] = "spill"
  /\ sink' = sink \o wview[c]
  /\ touched' = [touched EXCEPT ![c] = TRUE]
  /\ WriteGoes(c, WriteRun(FreshBuf(wbuf, used), 0, Rest(wdata[c], wn[c]),
                           wtotal[c] + wn[c]), werr)
  /\ UNCHANGED <<wsize, werr, wcall, accepted, nextTag>>

\* writeAll failed with e after the sink took k bytes: flush() latches e and
\* rethrows, write() lets it through
SpillFail(c, e, k) ==
  /\ UNCHANGED overlapped
  /\ wpc[c] = "spill"
  /\ k \in 0..(Len(wview[c]) - 1)
  /\ sink' = sink \o TakeFirst(wview[c], k)
  /\ werr' = e
  /\ touched' = [touched EXCEPT ![c] = TRUE]
  /\ wview' = [wview EXCEPT ![c] = <<>>]
  /\ wpc' = [wpc EXCEPT ![c] = "idle"]
  /\ wret' = [wret EXCEPT ![c] = Thrown("write", e)]
  /\ wdata' = [wdata EXCEPT ![c] = <<>>]
  /\ wtotal' = [wtotal EXCEPT ![c] = 0]
  /\ UNCHANGED <<wsize, wbuf, used, wn, wcall, accepted, nextTag>>

\* flush(), up to its suspension on writeAll
FlushCall(c) ==
  /\ wpc[c] = "idle"
  /\ CallStarts(c)
  /\ touched' = [touched EXCEPT ![c] = FALSE]
  /\ wcall' = [wcall EXCEPT ![c] = <<>>]
  /\ UNCHANGED <<wsize, wbuf, used, werr, sink, wdata, wtotal, wn, accepted,
                 nextTag>>
  /\ IF Failed(werr)
     THEN /\ wret' = [wret EXCEPT ![c] = Thrown("flush", werr)]
          /\ UNCHANGED <<wpc, wview>>
     ELSE IF used = 0
          THEN /\ wret' = [wret EXCEPT ![c] = Returned("flush", 0)]
               /\ UNCHANGED <<wpc, wview>>
          ELSE /\ wret' = [wret EXCEPT ![c] = Pending("flush")]
               /\ wpc' = [wpc EXCEPT ![c] = "flush"]
               /\ wview' = [wview EXCEPT ![c] = FlushRegion(wbuf, used)]

\* writeAll succeeded: this.buf = new Uint8Array(...); usedBufferBytes = 0
FlushDone(c) ==
  /\ UNCHANGED overlapped
  /\ wpc[c] = "flush"
  /\ sink' = sink \o wview[c]
  /\ wview' = [wview EXCEPT ![c] = <<>>]
  /\ touched' = [touched EXCEPT ![c] = TRUE]
  /\ wbuf' = FreshBuf(wbuf, used)
  /\ used' = 0
  /\ wpc' = [wpc EXCEPT ![c] = "idle"]
  /\ wret' = [wret EXCEPT ![c] = Returned("flush", 0)]
  /\ UNCHANGED <<wsize, werr, wdata, wtotal, wn, wcall, accepted, nextTag>>

\* writeAll failed with e after the sink took k bytes: this.err = e; throw e
FlushFail(c, e, k) ==
  /\ UNCHANGED overlapped
  /\ wpc[c] = "flush"
  /\ k \in 0..(Len(wview[c]) - 1)
  /\ sink' = sink \o TakeFirst(wview[c], k)
  /\ wview' = [wview EXCEPT ![c] = <<>>]
  /\ werr' = e
  /\ touched' = [touched EXCEPT ![c] = TRUE]
  /\ wpc' = [wpc EXCEPT ![c] = "idle"]
  /\ wret' = [wret EXCEPT ![c] = Thrown("flush", e)]
  /\ UNCHANGED <<wsize, wbuf, used, wdata, wtotal, wn, wcall, accepted, nextTag>>

WriterResetKeepsUsed(c) ==
  /\ UNCHANGED overlapped
  /\ wpc[c] = "idle"
  /\ werr' = NoErr
  /\ sink' = <<>>
  /\ accepted' = <<>>
  /\ touched' = [touched EXCEPT ![c] = FALSE]
  /\ wcall' = [wcall EXCEPT ![c] = <<>>]
  /\ wret' = [wret EXCEPT ![c] = Returned("reset", 0)]
  /\ UNCHANGED <<wsize, wbuf, used, wpc, wdata, wtotal, wn, wview, nextTag>>

\* reset(w): this.err = null; this.usedBufferBytes = 0; this.writer = w.
\* The new underlying writer has received nothing.
WriterReset(c) ==
  /\ UNCHANGED overlapped
  /\ wpc[c] = "idle"
  /\ werr' = NoErr
  /\ used' = 0
  /\ sink' = <<>>
  /\ accepted' = <<>>
  /\ touched' = [touched EXCEPT ![c] = FALSE]
  /\ wcall' = [wcall EXCEPT ![c] = <<>>]
  /\ wret' = [wret EXCEPT ![c] = Returned("reset", 0)]
  /\ UNCHANGED <<wsize, wbuf, wpc, wdata, wtotal, wn, wview, nextTag>>

\* bytes/mod.ts: the call of a function of the module and its outcome
VARIABLES bcall

bvars == <<bcall>>

NoBytes ==
  [op |-> "none", a |-> <<>>, b |-> <<>>, n |-> 0, list |-> <<>>,
   val |-> 0, ok |-> FALSE, out |-> <<>>, err |-> "none"]

BytesOff == bcall = NoBytes

\* MuxAsyncIterator
VARIABLES
  mux,       \* the object: iteratorCount, yields, throws, signal (resolved?)
  mit,       \* per iterator: its script, what it has produced, the next()
             \* calls it has not answered, whether it was added
  mgen,      \* the generator made by iterate(): where it is, its loop index i
  mseen      \* the consumer: the values and the error it has received

mvars == <<mux, mit, mgen, mseen>>

MuxOff ==
  /\ mux = <<>> /\ mit = <<>> /\ mgen = <<>> /\ mseen = <<>>

vars == <<wvars, dvars, rvars, bvars, mvars>>

\* calls issued one at a time, by caller 1
NextWriter ==
  \/ \E len \in 0..MaxData : Quiet /\ WriteCall(1, len) /\ UNCHANGED <<dvars, rvars, bvars, mvars>>
  \/ \E n \in 1..MaxData : DirectDone(1, n) /\ UNCHANGED <<dvars, rvars, bvars, mvars>>
  \/ \E e \in Errors : DirectFail(1, e) /\ UNCHANGED <<dvars, rvars, bvars, mvars>>
  \/ SpillDone(1) /\ UNCHANGED <<dvars, rvars, bvars, mvars>>
  \/ \E e \in Errors, k \in 0..MaxCap : SpillFail(1, e, k) /\ UNCHANGED <<dvars, rvars, bvars, mvars>>
  \/ Quiet /\ FlushCall(1) /\ UNCHANGED <<dvars, rvars, bvars, mvars>>
  \/ FlushDone(1) /\ UNCHANGED <<dvars, rvars, bvars, mvars>>
  \/ \E e \in Errors, k \in 0..MaxCap : FlushFail(1, e, k) /\ UNCHANGED <<dvars, rvars, bvars, mvars>>
  \/ Quiet /\ WriterReset(1) /\ UNCHANGED <<dvars, rvars, bvars, mvars>>

InitWriterSpec == InitWriter /\ DelimOff /\ ReaderOff /\ BytesOff /\ MuxOff

SpecWriter == InitWriterSpec /\ [][NextWriter]_vars

\* ------------------------------------------------------- BufWriter claims

\* C1: with calls issued one at a time over a sink that has not failed, once
\* flush() has returned the sink holds exactly the concatenation, in call
\* order, of the data given to write(), for every capacity and data length.
C1_RoundTrip ==
  (Quiet /\ wret[1].op = "flush" /\ wret[1].kind = "ret") => sink = accepted

\* a flush returned after more bytes than the capacity went through the
\* buffer and the sink
C1_Witness ==
  /\ Quiet /\ wret[1] = Returned("flush", 0) /\ touched[1]
  /\ Len(accepted) > Len(wbuf)
  /\ sink = accepted

\* C7: a sink error during a write or a flush latches the writer: the error
\* is stored, and every later write and flush throws that stored error
\* without calling the sink and without changing the writer, until reset.
C7_Latched ==
  [][ /\ (wret[1].kind = "pending" /\ wret'[1].kind = "throw" /\ touched'[1])
         => (werr' # NoErr /\ werr' = wret'[1].err)
      /\ (Quiet /\ werr # NoErr /\ wret'[1].op # "reset")
         => /\ wret'[1].kind = "throw"
            /\ wret'[1].err = werr
            /\ ~touched'[1]
            /\ UNCHANGED <<sink, werr, wbuf, used, wpc>> ]_vars

\* a call on a failed writer threw without reaching the sink
C7_Witness ==
  Quiet /\ werr # NoErr /\ wret[1].kind = "throw" /\ ~touched[1]

\* C8: 0 <= usedBufferBytes <= capacity in every state, failing calls
\* included, and the capacity is the one the writer was constructed with.
C8_UsedInBounds ==
  /\ used >= 0
  /\ used <= Len(wbuf)
  /\ Len(wbuf) = wsize

\* a write failed in its flush and left the buffer completely full
C8_Witness ==
  used = Len(wbuf) /\ wret[1] \in {Thrown("write", e) : e \in Errors}

\* C9: a write(data) that returns returns data.length, and its bytes are
\* the last data.length bytes of what the sink received followed by what
\* the buffer holds.
C9_WriteReturnsLength ==
  (wret[1].op = "write" /\ wret[1].kind = "ret")
    => LET all == sink \o SubSeq(wbuf, 1, used)
           n == Len(wcall[1])
       IN  /\ wret[1].val = n
           /\ Len(all) >= n
           /\ SubSeq(all, Len(all) - n + 1, Len(all)) = wcall[1]

\* a write longer than the capacity returned after the sink took its data
\* in more than one piece
C9_Witness ==
  /\ wret[1].op = "write" /\ wret[1].kind = "ret" /\ touched[1]
  /\ wret[1].val > Len(wbuf)
  /\ used > 0

\* C10: flush() with nothing buffered returns without calling the sink and
\* changes nothing; with bytes buffered it calls the sink, on success the
\* sink has received exactly buf[0, usedBufferBytes) and usedBufferBytes
\* is 0, on failure the error is latched and rethrown.
C10_Flush ==
  [][ /\ (Quiet /\ werr = NoErr /\ used = 0 /\ wret'[1].op = "flush")
         => /\ wret'[1] = Returned("flush", 0)
            /\ ~touched'[1]
            /\ UNCHANGED <<wbuf, used, werr, sink, wpc, accepted>>
      /\ (Quiet /\ werr = NoErr /\ used > 0 /\ wret'[1].op = "flush")
         => /\ wpc'[1] = "flush"
            /\ UNCHANGED <<wbuf, used, werr, sink>>
      /\ (wpc[1] = "flush" /\ wret'[1].kind = "ret")
         => /\ sink' = sink \o SubSeq(wbuf, 1, used)
            /\ used' = 0
            /\ werr' = NoErr
      /\ (wpc[1] = "flush" /\ wret'[1].kind = "throw")
         => /\ werr' # NoErr
            /\ werr' = wret'[1].err
            /\ used' = used ]_vars

\* a flush handed a partly filled buffer to the sink and returned
C10_Witness ==
  /\ wret[1] = Returned("flush", 0) /\ touched[1]
  /\ used = 0 /\ werr = NoErr
  /\ Len(sink) = 1 /\ Len(wbuf) > 1

\* ================================================== createLPS and readDelim
\* the writer of the other specifications, constructed and never called
WriterOff == InitWriter /\ wsize = 1

\* the byte values the delimiters and streams are made of
DelimBytes == {0, 1}

\* new Uint8Array(Math.max(1024, delimLen + 1)): one read delivers at most
\* this many bytes
InspectSize(delimLen) == Max(1024, delimLen + 1)

\* JavaScript's undefined: what a typed array gives at an index that is out
\* of range, undefined or NaN (undefined - 1 is NaN)
UNDEF == -1

\* arr[k], k a 0-based index or UNDEF
At(arr, k) == IF k \in 0..(Len(arr) - 1) THEN arr[k + 1] ELSE UNDEF

\* k - 1 of the source: NaN when k is undefined
Pred(k) == IF k = UNDEF THEN UNDEF ELSE k - 1

FallBackLps(pat, lps, prefixEnd) == At(lps, Pred(prefixEnd))
\* prefixEnd = pat[prefixEnd - 1];
FallBack(pat, lps, prefixEnd) == At(pat, Pred(prefixEnd))

SeqsUpTo(S, n) == UNION {[1..k -> S] : k \in 0..n}

InitDelim ==
  /\ dpat \in SeqsUpTo(DelimBytes, MaxDelimLen) \ {<<>>}
  /\ dsrc \in SeqsUpTo(DelimBytes, MaxStreamLen)
  /\ dpos = 0
  /\ dlps = Zeros(Len(dpat))     \* new Uint8Array(pat.length); lps[0] = 0
  /\ dpe = 0
  /\ di = 1
  /\ dinput = <<>>               \* new Buffer()
  /\ dinspect = 0
  /\ dmatch = 0
  /\ dout = <<>>
  /\ dpc = "lps"

\* one turn of createLPS's while loop, or its return to readDelim
LpsStep ==
  /\ dpc = "lps"
  /\ UNCHANGED <<dpat, dsrc, dpos, dinput, dinspect, dmatch, dout>>
  /\ IF di < Len(dlps)
     THEN /\ UNCHANGED dpc
          /\ IF At(dpat, di) # UNDEF /\ At(dpat, di) = At(dpat, dpe)
             THEN /\ dpe' = dpe + 1
                  /\ dlps' = [dlps EXCEPT ![di + 1] = (dpe + 1) % 256]
                  /\ di' = di + 1
             ELSE IF dpe = 0
                  THEN /\ dlps' = [dlps EXCEPT ![di + 1] = 0]
                       /\ di' = di + 1
                       /\ UNCHANGED dpe
                  ELSE /\ dpe' = FallBack(dpat, dlps, dpe)
                       /\ UNCHANGED <<dlps, di>>
     ELSE /\ dpc' = "read"
          /\ UNCHANGED <<dlps, dpe, di>>

\* reader.read(inspectArr) delivers the next n bytes, which are written to
\* inputBuffer; sliceToProcess = inputBuffer.bytes()
DelimRead(n) ==
  /\ dpc = "read"
  /\ n >= 1 /\ n <= Len(dsrc) - dpos /\ n <= InspectSize(Len(dpat))
  /\ dpos' = dpos + n
  /\ dinput' = dinput \o SubSeq(dsrc, dpos + 1, dpos + n)
  /\ dpc' = "scan"
  /\ UNCHANGED <<dpat, dsrc, dlps, dpe, di, dinspect, dmatch, dout>>

DelimEofSkipsEmpty ==
  /\ dpc = "read"
  /\ dpos = Len(dsrc)
  /\ dout' = IF dinput = <<>> THEN dout ELSE Append(dout, dinput)
  /\ dpc' = "done"
  /\ UNCHANGED <<dpat, dsrc, dpos, dlps, dpe, di, dinput, dinspect, dmatch>>
\* reader.read returns null: yield inputBuffer.bytes(); return
DelimEof ==
  /\ dpc = "read"
  /\ dpos = Len(dsrc)
  /\ dout' = Append(dout, dinput)
  /\ dpc' = "done"
  /\ UNCHANGED <<dpat, dsrc, dpos, dlps, dpe, di, dinput, dinspect, dmatch>>

DelimAbortYields ==
  /\ dpc = "read"
  /\ dpc' = "aborted"
  /\ dout' = Append(dout, dinput)
  /\ UNCHANGED <<dpat, dsrc, dpos, dlps, dpe, di, dinput, dinspect, dmatch>>
\* reader.read returns a negative count: return, nothing yielded
DelimAbort ==
  /\ dpc = "read"
  /\ dpc' = "aborted"
  /\ UNCHANGED <<dpat, dsrc, dpos, dlps, dpe, di, dinput, dinspect, dmatch, dout>>

\* one turn of the while (inspectIndex < sliceToProcess.length) loop, or
\* its end: inputBuffer = new Buffer(sliceToProcess)
ScanStep ==
  /\ dpc = "scan"
  /\ UNCHANGED <<dpat, dsrc, dpos, dlps, dpe, di>>
  /\ IF dinspect < Len(dinput)
     THEN /\ UNCHANGED dpc
          /\ IF At(dinput, dinspect) = At(dpat, dmatch)
             THEN IF dmatch + 1 = Len(dpat)
                  THEN \* full match: yield readyBytes, go on with pendingBytes
                       /\ dout' = Append(dout,
                                     TakeFirst(dinput, dinspect + 1 - Len(dpat)))
                       /\ dinput' = DropFirst(dinput, dinspect + 1)
                       /\ dinspect' = 0
                       /\ dmatch' = 0
                  ELSE /\ dinspect' = dinspect + 1
                       /\ dmatch' = dmatch + 1
                       /\ UNCHANGED <<dinput, dout>>
             ELSE IF dmatch = 0
                  THEN /\ dinspect' = dinspect + 1
                       /\ UNCHANGED <<dmatch, dinput, dout>>
                  ELSE /\ dmatch' = At(dlps, Pred(dmatch))
                       /\ UNCHANGED <<dinspect, dinput, dout>>
     ELSE /\ dpc' = "read"
          /\ UNCHANGED <<dinput, dinspect, dmatch, dout>>

\* readDelim over a reader that delivers at least one byte per read until
\* its bytes are used up and then signals the end of the stream
NextDelim ==
  \/ LpsStep /\ UNCHANGED <<wvars, rvars, bvars, mvars>>
  \/ \E n \in 1..MaxStreamLen : DelimRead(n) /\ UNCHANGED <<wvars, rvars, bvars, mvars>>
  \/ DelimEof /\ UNCHANGED <<wvars, rvars, bvars, mvars>>
  \/ ScanStep /\ UNCHANGED <<wvars, rvars, bvars, mvars>>

InitDelimSpec == InitDelim /\ WriterOff /\ ReaderOff /\ BytesOff /\ MuxOff

SpecDelim == InitDelimSpec /\ [][NextDelim]_vars

\* the consumer keeps pulling, the reader keeps answering and the code
\* keeps running
SpecDelimFair == SpecDelim /\ WF_vars(NextDelim)

\* whether d occurs in s at 1-based position i
OccursAt(s, d, i) == i + Len(d) - 1 <= Len(s) /\ SubSeq(s, i, i + Len(d) - 1) = d

\* the pieces of s between successive leftmost non-overlapping occurrences
\* of the non-empty d
RECURSIVE SplitFrom(_, _, _, _)
SplitFrom(s, d, start, i) ==
  IF i > Len(s) THEN <<SubSeq(s, start, Len(s))>>
  ELSE IF OccursAt(s, d, i)
       THEN <<SubSeq(s, start, i - 1)>> \o SplitFrom(s, d, i + Len(d), i + Len(d))
       ELSE SplitFrom(s, d, start, i + 1)

SplitAll(s, d) == SplitFrom(s, d, 1, 1)

\* C3: for every stream, every non-empty delimiter and every fragmentation
\* of the stream into reads, readDelim comes to its end having yielded
\* exactly the pieces between successive leftmost non-overlapping
\* occurrences of the delimiter.
C3_SplitsAtDelimiters ==
  <>(dpc = "done" /\ dout = SplitAll(dsrc, dpat))

\* C11: reset(newSink), on a writable or a failed writer, with or without
\* buffered bytes, leaves err null and usedBufferBytes 0 and calls no
\* sink; no byte given to write() before the reset ever reaches the sink.
C11_WriterReset ==
  /\ wret[1].op = "reset"
       => (werr = NoErr /\ used = 0 /\ sink = <<>> /\ ~touched[1])
  /\ Range(sink) \subseteq Range(accepted)

\* reset() has discarded bytes that were in the buffer, unflushed
C11_Witness ==
  /\ wret[1].op = "reset"
  /\ \E i \in 1..Len(wbuf) : wbuf[i] # 0

\* ================================================================ BufReader
MIN_BUF_SIZE == 16
MAX_CONSECUTIVE_EMPTY_READS == 100
CR == 13
LF == 10

\* constructor: if (size < MIN_BUF_SIZE) size = MIN_BUF_SIZE
ReaderSize(size) == IF size < MIN_BUF_SIZE THEN MIN_BUF_SIZE ELSE size

\* Byte i of the g-th underlying reader when it is neither CR nor LF: the
\* values differ from byte to byte and from reader to reader, so that a
\* lost, repeated, reordered or stale byte shows in what a call returns.
PlainByte(g, i) == 32 + 64 * g + i

PlainStream(g, n) == [i \in 1..n |-> PlainByte(g, i)]

\* a stream of n distinct bytes but for the LF at the positions lfs and the
\* CR at the positions crs
LineStream(g, n, lfs, crs) ==
  [i \in 1..n |-> IF i \in lfs THEN LF
                  ELSE IF i \in crs THEN CR
                  ELSE PlainByte(g, i)]

\* a stream of n bytes of the g-th underlying reader, all the same but for
\* the CR LF pair that ends at lf (if lf > 0)
FlatStream(g, n, lf) ==
  [i \in 1..n |-> IF i = lf THEN LF
                  ELSE IF i = lf - 1 THEN CR
                  ELSE PlainByte(g, 0)]

\* the outcome of a call, or the call in progress
RNoRet ==
  [op |-> "none", kind |-> "none", val |-> 0, bytes |-> <<>>, more |-> FALSE,
   err |-> "none", haspartial |-> FALSE, partial |-> <<>>, used |-> 0]
RPending(op) == [RNoRet EXCEPT !.op = op, !.kind = "pending"]
\* a value returned: val the number (count or byte), bytes the bytes handed
\* out, used how many stream bytes the caller has consumed by it
RRet(op, val, bytes, cons) ==
  [RNoRet EXCEPT !.op = op, !.kind = "ret", !.val = val, !.bytes = bytes,
                 !.used = cons]
RNull(op) == [RNoRet EXCEPT !.op = op, !.kind = "null"]
\* an error thrown with no `partial` property (or partial = undefined)
RThrow(op, err) == [RNoRet EXCEPT !.op = op, !.kind = "throw", !.err = err]
\* an error thrown with its `partial` property
RThrowPartial(op, err, partial, cons) ==
  [RNoRet EXCEPT !.op = op, !.kind = "throw", !.err = err,
                 !.haspartial = TRUE, !.partial = partial, !.used = cons]

\* the locals of the call in progress: readSlice's s, readFull's
\* p.subarray(0, bytesRead) and the i of the _fill() it is suspended in
NoLoc == [op |-> "none", s |-> 0, dest |-> <<>>, i |-> 0]

\* the BufReader, the position of its underlying reader and the call in
\* progress, as one value
St ==
  [buf |-> buf, r |-> r, w |-> w, eof |-> eof, pos |-> pos, pc |-> rpc,
   arg |-> rarg, loc |-> rloc, ret |-> rret, taken |-> taken,
   snap |-> snap, live |-> live]

Goes(s) ==
  /\ buf' = s.buf /\ r' = s.r /\ w' = s.w /\ eof' = s.eof /\ pos' = s.pos
  /\ rpc' = s.pc /\ rarg' = s.arg /\ rloc' = s.loc /\ rret' = s.ret
  /\ taken' = s.taken /\ snap' = s.snap /\ live' = s.live

\* the call starts: its argument and its name are kept while it runs
Begin(s, op, arg) ==
  [s EXCEPT !.arg = arg, !.loc = [NoLoc EXCEPT !.op = op], !.ret = RPending(op)]

\* the call returns or throws
Finish(s, ret) ==
  [s EXCEPT !.pc = "idle", !.arg = 0, !.loc = NoLoc, !.ret = ret,
            !.taken = s.taken + ret.used]

\* the underlying reader writes data into arr from 0-based offset off
Deliver(arr, off, data) ==
  [i \in 1..Len(arr) |->
     IF i > off /\ i <= off + Len(data) THEN data[i - off] ELSE arr[i]]

\* arr.copyWithin(0, start, end)
CopyWithin(arr, start, end) ==
  [i \in 1..Len(arr) |-> IF i <= end - start THEN arr[start + i] ELSE arr[i]]

LastIndexOfByte(arr, b) ==
  IF \E i \in 1..Len(arr) : arr[i] = b
  THEN (CHOOSE i \in 1..Len(arr) :
          arr[i] = b /\ \A j \in (i + 1)..Len(arr) : arr[j] # b) - 1
  ELSE -1
\* typedArray.indexOf(b): the 0-based index of the first b, or -1
IndexOfByte(arr, b) ==
  IF \E i \in 1..Len(arr) : arr[i] = b
  THEN (CHOOSE i \in 1..Len(arr) :
          arr[i] = b /\ \A j \in 1..(i - 1) : arr[j] # b) - 1
  ELSE -1

\* --------------------------------------------------------- read, readFull
OneReadStartKeepsW(s) == [s EXCEPT !.r = 0]
OneReadStartClearsEof(s) == [s EXCEPT !.r = 0, !.w = 0, !.eof = FALSE]
\* One read: this.r = 0; this.w = 0; before rd.read(this.buf)
OneReadStart(s) == [s EXCEPT !.r = 0, !.w = 0]

\* read(p) with p.byteLength = n > 0, up to its suspension on the
\* underlying reader ("direct" into p, or "one" read into this.buf) or to
\* its return ("no" suspension) of n bytes copied from the buffer
InnerRead(s, n) ==
  IF s.r = s.w
  THEN IF n >= Len(s.buf)
       THEN [st |-> s, susp |-> "direct", n |-> 0, bytes |-> <<>>]
       ELSE [st |-> OneReadStart(s), susp |-> "one", n |-> 0, bytes |-> <<>>]
  ELSE LET cp == Copy(SubSeq(s.buf, s.r + 1, s.w), Zeros(n), 0)
       IN  [st |-> [s EXCEPT !.r = s.r + cp.n], susp |-> "no", n |-> cp.n,
            bytes |-> TakeFirst(cp.dst, cp.n)]

\* the answers of the underlying reader
AnsData(data) == [kind |-> "data", data |-> data, err |-> "none"]
AnsEof == [kind |-> "null", data |-> <<>>, err |-> "none"]
AnsThrow(e) == [kind |-> "throw", data |-> <<>>, err |-> e]

\* read(p), p.byteLength = n, from the answer of the underlying reader to
\* its return: out is "ret" (n bytes), "null" or "throw"
InnerReadAnswer(s, n, ans) ==
  CASE ans.kind = "throw" ->
         [st |-> s, out |-> "throw", n |-> 0, bytes |-> <<>>, err |-> ans.err]
    [] ans.kind = "null" ->
         [st |-> s, out |-> "null", n |-> 0, bytes |-> <<>>, err |-> "none"]
    [] ans.kind = "data" /\ s.pc = "direct" ->
         [st |-> s, out |-> "ret", n |-> Len(ans.data), bytes |-> ans.data,
          err |-> "none"]
    [] ans.kind = "data" /\ s.pc = "one" /\ Len(ans.data) = 0 ->
         [st |-> s, out |-> "ret", n |-> 0, bytes |-> <<>>, err |-> "none"]
    [] ans.kind = "data" /\ s.pc = "one" /\ Len(ans.data) > 0 ->
         LET b2 == Deliver(s.buf, 0, ans.data)
             w2 == s.w + Len(ans.data)
             cp == Copy(SubSeq(b2, s.r + 1, w2), Zeros(n), 0)
         IN  [st |-> [s EXCEPT !.buf = b2, !.w = w2, !.r = s.r + cp.n],
              out |-> "ret", n |-> cp.n, bytes |-> TakeFirst(cp.dst, cp.n),
              err |-> "none"]

ReadStart(s0, n) ==
  LET s == Begin(s0, "read", n)
  IN  IF n = 0 THEN Finish(s, RRet("read", 0, <<>>, 0))
      ELSE LET ir == InnerRead(s, n)
           IN  IF ir.susp = "no"
               THEN Finish(ir.st, RRet("read", ir.n, ir.bytes, ir.n))
               ELSE [ir.st EXCEPT !.pc = ir.susp]

ReadAnswerAgain(s, ans) ==
  LET ia == InnerReadAnswer(s, s.arg, ans)
  IN  CASE ia.out = "ret" /\ ia.n < s.arg -> [ia.st EXCEPT !.pc = "one"]
        [] ia.out = "ret" /\ ia.n >= s.arg ->
             Finish(ia.st, RRet("read", ia.n, ia.bytes, ia.n))
        [] ia.out = "null" -> Finish(ia.st, RNull("read"))
        [] ia.out = "throw" -> Finish(ia.st, RThrow("read", ia.err))
\* read(p) after rd.read() answered
ReadAnswer(s, ans) ==
  LET ia == InnerReadAnswer(s, s.arg, ans)
  IN  CASE ia.out = "ret" -> Finish(ia.st, RRet("read", ia.n, ia.bytes, ia.n))
        [] ia.out = "null" -> Finish(ia.st, RNull("read"))
        [] ia.out = "throw" -> Finish(ia.st, RThrow("read", ia.err))

\* readFull(p) from the top of its while loop, p.length = s.arg and
\* p.subarray(0, bytesRead) = s.loc.dest
RECURSIVE FullRun(_)
FullRun(s) ==
  IF Len(s.loc.dest) < s.arg
  THEN LET ir == InnerRead(s, s.arg - Len(s.loc.dest))
       IN  IF ir.susp = "no"
           THEN FullRun([ir.st EXCEPT !.loc.dest = @ \o ir.bytes])
           ELSE [ir.st EXCEPT !.pc = ir.susp]
  ELSE Finish(s, RRet("readFull", s.arg, s.loc.dest, Len(s.loc.dest)))

FullAnswerNull(s, ans) ==
  LET ia == InnerReadAnswer(s, s.arg - Len(s.loc.dest), ans)
      got == s.loc.dest
  IN  CASE ia.out = "ret" -> FullRun([ia.st EXCEPT !.loc.dest = @ \o ia.bytes])
        [] ia.out = "null" ->
             Finish(ia.st, [RNull("readFull") EXCEPT !.val = s.arg,
                                                     !.used = Len(got)])
        [] ia.out = "throw" ->
             Finish(ia.st, RThrowPartial("readFull", ia.err, got, Len(got)))
\* readFull(p) after this.read() answered; the result record keeps
\* p.length as its val
FullAnswer(s, ans) ==
  LET ia == InnerReadAnswer(s, s.arg - Len(s.loc.dest), ans)
      got == s.loc.dest
  IN  CASE ia.out = "ret" -> FullRun([ia.st EXCEPT !.loc.dest = @ \o ia.bytes])
        [] ia.out = "null" /\ Len(got) = 0 ->
             Finish(ia.st, [RNull("readFull") EXCEPT !.val = s.arg])
        [] ia.out = "null" /\ Len(got) > 0 ->
             Finish(ia.st, [RThrowPartial("readFull", "PartialRead", got,
                                          Len(got)) EXCEPT !.val = s.arg])
        [] ia.out = "throw" ->
             Finish(ia.st, [RThrowPartial("readFull", ia.err, got, Len(got))
                              EXCEPT !.val = s.arg])

\* ------------------------------- _fill, readByte, readSlice, readLine, peek
\* what the call in progress does with an error thrown by _fill()
FillError(s, err) ==
  CASE s.loc.op = "readByte" -> Finish(s, RThrow("readByte", err))
    \* readSlice: err.partial = slice, and slice is still undefined
    [] s.loc.op \in {"readSlice", "readString"} -> Finish(s, RThrow(s.loc.op, err))
    \* readLine: assert(partial instanceof Uint8Array) throws
    [] s.loc.op = "readLine" -> Finish(s, RThrow("readLine", "AssertionError"))
    \* peek: err.partial = this.buf.subarray(this.r, this.w)
    [] s.loc.op = "peek" ->
         Finish(s, RThrowPartial("peek", err, SubSeq(s.buf, s.r + 1, s.w), 0))
    \* _fill() called by itself
    [] s.loc.op = "_fill" -> Finish(s, RThrow("_fill", err))

\* Slide existing data to beginning.
Slide(s) ==
  IF s.r > 0
  THEN [s EXCEPT !.buf = CopyWithin(s.buf, s.r, s.w), !.w = s.w - s.r, !.r = 0]
  ELSE s

\* _fill() up to its suspension on rd.read(this.buf.subarray(this.w))
FillStart(s) ==
  LET t == Slide(s)
  IN  IF t.w >= Len(t.buf) THEN FillError(t, "FillFullBuffer")
      ELSE [t EXCEPT !.pc = "fill", !.loc.i = MAX_CONSECUTIVE_EMPTY_READS]

ByteRunStays(s) ==
  IF s.r = s.w
  THEN IF s.eof THEN Finish(s, RNull("readByte")) ELSE FillStart(s)
  ELSE Finish(s, RRet("readByte", s.buf[s.r + 1], <<s.buf[s.r + 1]>>, 1))
\* readByte() from the top of its while loop
ByteRun(s) ==
  IF s.r = s.w
  THEN IF s.eof THEN Finish(s, RNull("readByte")) ELSE FillStart(s)
  ELSE Finish([s EXCEPT !.r = s.r + 1],
              RRet("readByte", s.buf[s.r + 1], <<s.buf[s.r + 1]>>, 1))

RewindWrong(s) == [s EXCEPT !.r = s.r + 1]
\* Put the '\r' back on buf: this.r--
Rewind(s) == [s EXCEPT !.r = s.r - 1]

LineFullKeepsCR(s, partial) ==
  IF ~s.eof /\ Len(partial) > 0 /\ partial[Len(partial)] = CR /\ s.r > 0
  THEN Finish(Rewind(s),
              [RRet("readLine", 0, partial, Len(partial) - 1) EXCEPT !.more = TRUE])
  ELSE Finish(s, [RRet("readLine", 0, partial, Len(partial)) EXCEPT !.more = ~s.eof])
\* readLine() after readSlice(LF) threw BufferFullError(partial)
LineFull(s, partial) ==
  IF ~s.eof /\ Len(partial) > 0 /\ partial[Len(partial)] = CR
  THEN IF s.r > 0
       THEN LET line == TakeFirst(partial, Len(partial) - 1)
            IN  Finish(Rewind(s),
                       [RRet("readLine", 0, line, Len(line)) EXCEPT !.more = ~s.eof])
       ELSE Finish(s, RThrow("readLine", "AssertionError"))
  ELSE Finish(s, [RRet("readLine", 0, partial, Len(partial)) EXCEPT !.more = ~s.eof])

LineDoneMore(s, line) ==
  Finish(s, [RRet("readLine", 0, line, Len(line)) EXCEPT !.more = TRUE])
LineDoneKeepsCR(s, line) ==
  LET n == Len(line)
      drop == IF n = 0 \/ line[n] # LF THEN 0 ELSE 1
  IN  Finish(s, RRet("readLine", 0, TakeFirst(line, n - drop), n))
\* readLine() after readSlice(LF) returned line
LineDone(s, line) ==
  LET n == Len(line)
      drop == IF n = 0 \/ line[n] # LF THEN 0
              ELSE IF n > 1 /\ line[n - 1] = CR THEN 2 ELSE 1
  IN  Finish(s, RRet("readLine", 0, TakeFirst(line, n - drop), n))

\* new TextDecoder().decode(bytes), as char codes: a byte below 128 is its
\* own character, a byte that starts no valid sequence is U+FFFD
Decode(bytes) ==
  [i \in 1..Len(bytes) |-> IF bytes[i] < 128 THEN bytes[i] ELSE 65533]

\* readSlice(delim) found its slice, for readSlice, readString and readLine
SliceDone(s, slice) ==
  CASE s.loc.op = "readLine" -> LineDone(s, slice)
    [] s.loc.op = "readString" ->
         Finish(s, RRet("readString", 0, Decode(slice), Len(slice)))
    [] s.loc.op = "readSlice" ->
         Finish(s, RRet("readSlice", 0, slice, Len(slice)))

DetachNot(s) == [s EXCEPT !.snap = s.buf, !.live = TRUE]
\* const oldbuf = this.buf; this.buf = this.buf.slice(0): the reader goes
\* on with a copy, oldbuf is the caller's
Detach(s) == [s EXCEPT !.snap = s.buf, !.live = FALSE]

SliceFullShort(s, oldbuf) ==
  Finish(s, RThrowPartial(s.loc.op, "BufferFull",
                          TakeFirst(oldbuf, Len(oldbuf) - 1), Len(oldbuf)))
\* readSlice(delim) found the buffer full: BufferFullError(oldbuf)
SliceFull(s, oldbuf) ==
  IF s.loc.op = "readLine" THEN LineFull(s, oldbuf)
  ELSE Finish(s, RThrowPartial(s.loc.op, "BufferFull", oldbuf, Len(oldbuf)))

\* readSlice(delim) from the top of its while loop, delim = s.arg and the
\* search start index s.loc.s
SliceRun(s) ==
  LET i == IndexOfByte(SubSeq(s.buf, s.r + s.loc.s + 1, s.w), s.arg)
  IN  IF i >= 0
      THEN SliceDone([s EXCEPT !.r = s.r + i + s.loc.s + 1],
                     SubSeq(s.buf, s.r + 1, s.r + i + s.loc.s + 1))
      ELSE IF s.eof
           THEN IF s.r = s.w THEN Finish(s, RNull(s.loc.op))
                ELSE SliceDone([s EXCEPT !.r = s.w], SubSeq(s.buf, s.r + 1, s.w))
           ELSE IF s.w - s.r >= Len(s.buf)
                THEN SliceFull(Detach([s EXCEPT !.r = s.w]), s.buf)
                ELSE FillStart([s EXCEPT !.loc.s = s.w - s.r])

PeekBufferedNone(s) == <<>>
\* this.buf.subarray(this.r, this.w)
PeekBuffered(s) == SubSeq(s.buf, s.r + 1, s.w)

PeekViewFromStart(s, n) == SubSeq(s.buf, 1, n)
\* this.buf.subarray(this.r, this.r + n)
PeekView(s, n) == SubSeq(s.buf, s.r + 1, s.r + n)

\* peek(n) from the top of its while loop, n = s.arg; the result record
\* keeps n as its val
PeekRun(s) ==
  LET avail == s.w - s.r
      n == s.arg
  IN  IF avail < n /\ avail < Len(s.buf) /\ ~s.eof THEN FillStart(s)
      ELSE IF avail = 0 /\ s.eof
           THEN Finish(s, [RNull("peek") EXCEPT !.val = n])
      ELSE IF avail < n /\ s.eof
           THEN Finish(s, RRet("peek", n, PeekView(s, avail), 0))
      ELSE IF avail < n
           THEN Finish(s, [RThrowPartial("peek", "BufferFull",
                                         PeekBuffered(s), 0) EXCEPT !.val = n])
      ELSE Finish(s, RRet("peek", n, PeekView(s, n), 0))

\* the call in progress goes on after _fill() returned
Resume(s0) ==
  LET s == [s0 EXCEPT !.pc = "run", !.loc.i = 0]
  IN  CASE s.loc.op = "readByte" -> ByteRun(s)
        [] s.loc.op \in {"readSlice", "readString", "readLine"} -> SliceRun(s)
        [] s.loc.op = "peek" -> PeekRun(s)
        [] s.loc.op = "_fill" -> Finish(s, RRet("_fill", 0, <<>>, 0))

FillDataClearsEof(s, data) ==
  [s EXCEPT !.buf = Deliver(s.buf, s.w, data), !.w = s.w + Len(data),
            !.eof = FALSE]
\* _fill(): rr bytes were read into this.buf.subarray(this.w); this.w += rr
FillData(s, data) ==
  [s EXCEPT !.buf = Deliver(s.buf, s.w, data), !.w = s.w + Len(data)]

\* _fill(): rr === null: this.eof = true
FillEof(s) == [s EXCEPT !.eof = TRUE]

FillZeroOneMore(s) ==
  IF s.loc.i > 0 THEN [s EXCEPT !.loc.i = s.loc.i - 1]
  ELSE FillError(s, "NoProgress")
\* _fill(): rr = 0: this.w += 0, i--, and the loop reads again while i > 0;
\* after the loop _fill() throws
FillZero(s) ==
  IF s.loc.i - 1 > 0 THEN [s EXCEPT !.loc.i = s.loc.i - 1]
  ELSE FillError(s, "NoProgress")

\* ------------------------------------------------------- BufReader actions
\* new BufReader(rd, size) over an underlying reader holding stream
InitReader(sizes, streams) ==
  /\ buf \in {Zeros(ReaderSize(size)) : size \in sizes}
  /\ r = 0
  /\ w = 0
  /\ eof = FALSE
  /\ src \in streams
  /\ pos = 0
  /\ gen = 0
  /\ rpc = "idle"
  /\ rarg = 0
  /\ rloc = NoLoc
  /\ rret = RNoRet
  /\ taken = 0
  /\ faults = 0
  /\ calls = 0
  /\ snap = <<>>
  /\ live = FALSE

ReadCall(n) ==
  /\ rpc = "idle"
  /\ Goes(ReadStart(St, n))
  /\ UNCHANGED <<src, gen, faults>>

ReadFullCall(n) ==
  /\ rpc = "idle"
  /\ Goes(FullRun(Begin(St, "readFull", n)))
  /\ UNCHANGED <<src, gen, faults>>

ReadByteCall ==
  /\ rpc = "idle"
  /\ Goes(ByteRun(Begin(St, "readByte", 0)))
  /\ UNCHANGED <<src, gen, faults>>

ReadSliceCall(delim) ==
  /\ rpc = "idle"
  /\ Goes(SliceRun(Begin(St, "readSlice", delim)))
  /\ UNCHANGED <<src, gen, faults>>

\* readString(delim), delim given as its char codes
ReadStringCall(delim) ==
  /\ rpc = "idle"
  /\ IF Len(delim) # 1
     THEN Goes(Finish(St, RThrow("readString", "DelimiterLength")))
     ELSE Goes(SliceRun(Begin(St, "readString", delim[1])))
  /\ UNCHANGED <<src, gen, faults>>

ReadLineCall ==
  /\ rpc = "idle"
  /\ Goes(SliceRun(Begin(St, "readLine", LF)))
  /\ UNCHANGED <<src, gen, faults>>

PeekCall(n) ==
  /\ rpc = "idle"
  /\ IF n < 0
     THEN Goes(Finish(St, RThrow("peek", "NegativeCount")))
     ELSE Goes(PeekRun(Begin(St, "peek", n)))
  /\ UNCHANGED <<src, gen, faults>>

\* _fill() called by itself
FillCall ==
  /\ rpc = "idle"
  /\ Goes(FillStart(Begin(St, "_fill", 0)))
  /\ UNCHANGED <<src, gen, faults>>

\* reset(r): this._reset(this.buf, r), which sets buf, rd and eof
ReaderReset(stream) ==
  /\ rpc = "idle"
  /\ gen < MaxResets
  /\ eof' = FALSE
  /\ src' = stream
  /\ pos' = 0
  /\ gen' = gen + 1
  /\ taken' = 0
  /\ rret' = RRet("reset", 0, <<>>, 0)
  /\ UNCHANGED <<buf, r, w, rpc, rarg, rloc, faults, snap, live>>

\* how many bytes the array given to the underlying reader can take
Room ==
  CASE rpc = "direct" -> rarg - Len(rloc.dest)
    [] rpc = "one" -> Len(buf)
    [] rpc = "fill" -> Len(buf) - w
    [] OTHER -> 0

\* the underlying reader delivers its next k bytes. A read of 0 bytes
\* inside _fill() only makes _fill() read again, and is not a step here.
SrcData(k) ==
  /\ rpc \in {"direct", "one", "fill"}
  /\ k >= (IF rpc = "fill" THEN 1 ELSE 0)
  /\ k <= Room /\ k <= Len(src) - pos
  /\ LET data == SubSeq(src, pos + 1, pos + k)
         s == [St EXCEPT !.pos = pos + k]
     IN  Goes(CASE rpc = "fill" -> Resume(FillData(s, data))
                [] rloc.op = "read" -> ReadAnswer(s, AnsData(data))
                [] OTHER -> FullAnswer(s, AnsData(data)))
  /\ UNCHANGED <<src, gen, faults>>

\* the underlying reader has delivered all its bytes and returns null
SrcEof ==
  /\ rpc \in {"direct", "one", "fill"}
  /\ pos = Len(src)
  /\ Goes(CASE rpc = "fill" -> Resume(FillEof(St))
            [] rloc.op = "read" -> ReadAnswer(St, AnsEof)
            [] OTHER -> FullAnswer(St, AnsEof))
  /\ UNCHANGED <<src, gen, faults>>

\* the underlying reader throws e
SrcThrow(e) ==
  /\ rpc \in {"direct", "one", "fill"}
  /\ faults < MaxFaults
  /\ faults' = faults + 1
  /\ Goes(CASE rpc = "fill" -> FillError(St, e)
            [] rloc.op = "read" -> ReadAnswer(St, AnsThrow(e))
            [] OTHER -> FullAnswer(St, AnsThrow(e)))
  /\ UNCHANGED <<src, gen>>

\* the underlying reader returns 0 to a read of _fill()
SrcZero ==
  /\ rpc = "fill"
  /\ Goes(FillZero(St))
  /\ UNCHANGED <<src, gen, faults>>

\* the underlying reader returns 0 on each of the
\* MAX_CONSECUTIVE_EMPTY_READS attempts of one _fill(), which throws
SrcStall ==
  /\ rpc = "fill"
  /\ faults < MaxFaults
  /\ faults' = faults + 1
  /\ Goes(FillError(St, "NoProgress"))
  /\ UNCHANGED <<src, gen>>

\* the longest stream an underlying reader holds
MaxSrcLen == MIN_BUF_SIZE + MaxSrcExtra

\* the sizes of the reads of the underlying reader: nothing, one byte, a
\* few bytes, or all that fits and is left
Frags == {0, 1, 3, Min(Room, Len(src) - pos)}

\* the sizes of the destinations given to read(): empty, one byte, smaller
\* than the buffer, as large as the buffer, larger than any stream
DestSizes == {0, 1, 3, MIN_BUF_SIZE, MaxSrcLen + 1}

\* ---- read() only, over a stream of distinct bytes
InitReadSpec ==
  /\ InitReader({MIN_BUF_SIZE - 1, MIN_BUF_SIZE + 1},
                {PlainStream(0, n) : n \in 0..MaxSrcLen})
  /\ WriterOff /\ DelimOff /\ BytesOff /\ MuxOff

NextRead ==
  \/ \E n \in DestSizes : ReadCall(n) /\ UNCHANGED <<mvars, bvars, wvars, dvars, calls>>
  \/ \E k \in Frags : SrcData(k) /\ UNCHANGED <<mvars, bvars, wvars, dvars, calls>>
  \/ SrcEof /\ UNCHANGED <<mvars, bvars, wvars, dvars, calls>>

SpecRead == InitReadSpec /\ [][NextRead]_vars

\* C2: the bytes each read() delivers are the next bytes of the stream, in
\* order, whatever the sizes of the destinations and of the source's own
\* reads; when read() reports the end of the stream, all of the stream has
\* been delivered.
C2_ReadRoundTrip ==
  /\ taken <= Len(src)
  /\ (rret.op = "read" /\ rret.kind = "ret")
       => /\ rret.val = Len(rret.bytes)
          /\ rret.bytes = SubSeq(src, taken - rret.val + 1, taken)
  /\ (rret.op = "read" /\ rret.kind = "null") => taken = Len(src)

\* the end of a stream longer than the buffer was reported after reads
\* through the buffer
C2_Witness ==
  /\ rret.op = "read" /\ rret.kind = "null"
  /\ Len(src) > Len(buf) /\ taken = Len(src)
  /\ w > 0 /\ w < Len(buf)

\* ---- every operation of the BufReader, over plain streams and lines
\* the streams: plain ones, empty to longer than the buffer, and one whose
\* CR LF pair lies across the end of a buffer of MIN_BUF_SIZE bytes
ReaderStreams ==
  {FlatStream(0, n, 0) : n \in {0, 2, MaxSrcLen}}
    \cup {FlatStream(0, MaxSrcLen, MIN_BUF_SIZE + 1)}

InitReaderSpec ==
  /\ InitReader({MIN_BUF_SIZE - 1, MIN_BUF_SIZE + 1}, ReaderStreams)
  /\ WriterOff /\ DelimOff /\ BytesOff /\ MuxOff

\* one more call of a run of at most MaxCalls calls
Counted == calls < MaxCalls /\ calls' = calls + 1

NextReader ==
  \/ \E n \in DestSizes : ReadCall(n) /\ Counted /\ UNCHANGED <<mvars, bvars, wvars, dvars>>
  \/ \E n \in {0, 3, MaxSrcLen + 1} : ReadFullCall(n) /\ Counted /\ UNCHANGED <<mvars, bvars, wvars, dvars>>
  \/ ReadByteCall /\ Counted /\ UNCHANGED <<mvars, bvars, wvars, dvars>>
  \/ ReadSliceCall(LF) /\ Counted /\ UNCHANGED <<mvars, bvars, wvars, dvars>>
  \/ \E d \in {<<LF>>, <<>>} : ReadStringCall(d) /\ Counted /\ UNCHANGED <<mvars, bvars, wvars, dvars>>
  \/ ReadLineCall /\ Counted /\ UNCHANGED <<mvars, bvars, wvars, dvars>>
  \/ \E n \in {-1, 0, 2, MIN_BUF_SIZE + 2} : PeekCall(n) /\ Counted /\ UNCHANGED <<mvars, bvars, wvars, dvars>>
  \/ \E n \in {0, 2} : ReaderReset(FlatStream(gen + 1, n, 0)) /\ Counted /\ UNCHANGED <<mvars, bvars, wvars, dvars>>
  \/ \E k \in Frags : SrcData(k) /\ UNCHANGED <<mvars, bvars, wvars, dvars, calls>>
  \/ SrcEof /\ UNCHANGED <<mvars, bvars, wvars, dvars, calls>>
  \/ SrcThrow("E1") /\ UNCHANGED <<mvars, bvars, wvars, dvars, calls>>
  \/ SrcStall /\ UNCHANGED <<mvars, bvars, wvars, dvars, calls>>

SpecReader == InitReaderSpec /\ [][NextReader]_vars

\* C4: in every state reached by any sequence of BufReader operations the
\* cursors satisfy 0 <= r <= w <= capacity.
C4_Cursors == 0 <= r /\ r <= w /\ w <= Len(buf)

\* readLine() has put back the CR that ended a full buffer
C4_Witness ==
  /\ rret.op = "readLine" /\ rret.kind = "ret" /\ rret.more
  /\ w = Len(buf) /\ r = w - 1 /\ buf[w] = CR

\* C5: after reset(newSource) the cursors are (0, 0) and eof is false, and
\* no later read, readByte, readSlice, readLine or peek returns a byte of
\* the old source.
C5_ResetDiscards ==
  /\ rret.op = "reset" => (r = 0 /\ w = 0 /\ ~eof)
  /\ (/\ gen >= 1
      /\ rret.kind = "ret"
      /\ rret.op \in {"read", "readByte", "readSlice", "readLine", "peek"})
       => Range(rret.bytes) \subseteq Range(src)

\* C6: once eof is true it stays true across every later operation, and
\* only reset(newSource) sets it back to false.
C6_EofLatch == [][eof => (eof' \/ gen' # gen)]_vars

\* read() has reported the end of the stream after an earlier _fill() had
\* set eof
C6_Witness == eof /\ rret.op = "read" /\ rret.kind = "null"

\* ---- readSlice and readLine over lines of distinct bytes
\* "abc\r\ndef\n"; short lines, one empty, the last unterminated; the
\* empty stream; long lines with CR LF, CR or nothing around the end of the
\* buffer
LineStreams ==
  {LineStream(0, 9, {5, 9}, {4}),
   LineStream(0, 3, {1, 3}, {}),
   LineStream(0, 2, {1}, {}),
   LineStream(0, 0, {}, {}),
   LineStream(0, MaxSrcLen, {MIN_BUF_SIZE + 1}, {MIN_BUF_SIZE}),
   LineStream(0, MaxSrcLen, {MIN_BUF_SIZE + 2}, {MIN_BUF_SIZE + 1}),
   LineStream(0, MaxSrcLen, {}, {MIN_BUF_SIZE}),
   LineStream(0, MaxSrcLen, {2, MaxSrcLen}, {})}

InitLinesSpec ==
  /\ InitReader({MIN_BUF_SIZE - 1, MIN_BUF_SIZE + 1}, LineStreams)
  /\ WriterOff /\ DelimOff /\ BytesOff /\ MuxOff

NextLines ==
  \/ ReadSliceCall(LF) /\ UNCHANGED <<mvars, bvars, wvars, dvars, calls>>
  \/ ReadLineCall /\ UNCHANGED <<mvars, bvars, wvars, dvars, calls>>
  \/ ReadByteCall /\ UNCHANGED <<mvars, bvars, wvars, dvars, calls>>
  \/ ReadCall(3) /\ UNCHANGED <<mvars, bvars, wvars, dvars, calls>>
  \/ \E n \in {2, MIN_BUF_SIZE + 2} : PeekCall(n) /\ UNCHANGED <<mvars, bvars, wvars, dvars, calls>>
  \/ \E k \in Frags : SrcData(k) /\ UNCHANGED <<mvars, bvars, wvars, dvars, calls>>
  \/ SrcEof /\ UNCHANGED <<mvars, bvars, wvars, dvars, calls>>

SpecLines == InitLinesSpec /\ [][NextLines]_vars

\* the stream position the last call started at
Before == taken - rret.used

\* the unread stream from 0-based position p holds delim: the position
\* of its first occurrence, or 0
FirstAt(p, delim) ==
  IF \E i \in (p + 1)..Len(src) : src[i] = delim
  THEN CHOOSE i \in (p + 1)..Len(src) :
         src[i] = delim /\ \A j \in (p + 1)..(i - 1) : src[j] # delim
  ELSE 0

\* C12: a readSlice(delim) that returns gives the unread stream up to and
\* including the first delim, and the position moves just past it; at the
\* end of the stream with no delim it gives all that remains; it gives
\* null exactly when nothing remains.
C12_SliceToFirstDelim ==
  /\ (rret.op = "readSlice" /\ rret.kind = "ret")
       => /\ Len(rret.bytes) > 0
          /\ rret.used = Len(rret.bytes)
          /\ rret.bytes = SubSeq(src, Before + 1, taken)
          /\ taken = (IF FirstAt(Before, LF) > 0
                      THEN FirstAt(Before, LF) ELSE Len(src))
  /\ (rret.op = "readSlice" /\ rret.kind = "null") => taken = Len(src)

\* the delimiter was found after the buffered bytes were slid down and the
\* buffer refilled: the slice would not fit behind the line read before it
C12_Witness ==
  /\ rret.op = "readSlice" /\ rret.kind = "ret"
  /\ Before = 2 /\ taken = MaxSrcLen
  /\ rret.bytes[Len(rret.bytes)] = LF

\* C13: when the next capacity bytes of the stream hold no delimiter,
\* readSlice(delim) throws BufferFullError, and the error's partial is the
\* whole buffer: capacity bytes, the next capacity bytes of the stream.
C13_BufferFullPayload ==
  /\ (rret.op = "readSlice" /\ rret.kind = "throw" /\ rret.err = "BufferFull")
       => /\ rret.haspartial
          /\ Len(rret.partial) = Len(buf)
          /\ rret.partial = SubSeq(src, Before + 1, Before + Len(buf))
  /\ (/\ rret.op = "readSlice" /\ rret.kind \in {"ret", "null", "throw"}
      /\ Before + Len(buf) <= Len(src)
      /\ FirstAt(Before, LF) \notin (Before + 1)..(Before + Len(buf)))
       => (rret.kind = "throw" /\ rret.err = "BufferFull")

\* BufferFullError from a readSlice that started inside the stream, so that
\* the buffer was filled after a slide
C13_Witness ==
  /\ rret.op = "readSlice" /\ rret.kind = "throw" /\ rret.err = "BufferFull"
  /\ Before > 0

\* the array given away by the last BufferFullError of readSlice, as its
\* holder sees it now
GivenAway == IF live THEN buf ELSE snap

\* C14: the partial of a BufferFullError thrown by readSlice is never
\* changed by what the reader does afterwards.
C14_PayloadKept == snap # <<>> => GivenAway = snap

\* after a BufferFullError the reader has slid and refilled its buffer
C14_Witness ==
  /\ snap # <<>> /\ buf # snap
  /\ rret.op \in {"read", "readByte", "readSlice", "readLine", "peek"}
  /\ rret.kind = "ret"

\* how many bytes end the line whose LF is at position f, for a call that
\* started at position p: CR LF, or LF alone
Terminator(p, f) == IF f - 1 > p /\ src[f - 1] = CR THEN 2 ELSE 1

\* C15: when the line from the position to its LF fits in the buffer,
\* terminator included, readLine() returns it without its LF and without a
\* CR just before that LF, with more = false, and the position moves past
\* the LF, so that successive calls give the lines in order; readLine()
\* returns null once nothing is left.
C15_LinesInOrder ==
  LET f == FirstAt(Before, LF)
  IN  /\ (/\ rret.op = "readLine" /\ rret.kind \in {"ret", "null", "throw"}
          /\ f > 0 /\ f - Before <= Len(buf))
           => /\ rret.kind = "ret"
              /\ ~rret.more
              /\ taken = f
              /\ rret.bytes = SubSeq(src, Before + 1, f - Terminator(Before, f))
      /\ (rret.op = "readLine" /\ rret.kind = "null") => taken = Len(src)
      /\ (/\ rret.op = "readLine" /\ rret.kind \in {"ret", "null", "throw"}
          /\ Before = Len(src))
           => rret.kind = "null"

\* "abc\r\ndef\n": readLine() has returned "abc"
C15_Witness ==
  /\ src = LineStream(0, 9, {5, 9}, {4})
  /\ rret.op = "readLine" /\ rret.kind = "ret" /\ ~rret.more
  /\ rret.bytes = SubSeq(src, 1, 3) /\ taken = 5

\* the line that starts at position p is longer than the buffer
LongFrom(p) ==
  LET f == FirstAt(p, LF)
  IN  IF f > 0 THEN f - p > Len(buf) ELSE Len(src) - p >= Len(buf)

\* C16: every readLine() returns the next bytes of the stream, none lost
\* and none repeated, and consumes beyond them only the LF or CR LF that
\* ends the line; of a line longer than the buffer it returns one buffer of
\* bytes with more = true, without the CR that may end the full buffer,
\* which is put back (r one below w) for the next call.
C16_LongLineFragments ==
  LET n == Len(rret.bytes) IN
  /\ (rret.op = "readLine" /\ rret.kind = "ret")
       => /\ rret.bytes = SubSeq(src, Before + 1, Before + n)
          /\ LF \notin Range(rret.bytes)
          /\ SubSeq(src, Before + n + 1, taken) \in {<<>>, <<LF>>, <<CR, LF>>}
          /\ (rret.more /\ n > 0) => rret.bytes[n] # CR
  /\ (/\ rret.op = "readLine" /\ rret.kind \in {"ret", "null", "throw"}
      /\ LongFrom(Before))
       => /\ rret.kind = "ret" /\ rret.more
          /\ taken = Before + n
          /\ IF src[Before + Len(buf)] = CR
             THEN n = Len(buf) - 1 /\ r = w - 1 /\ buf[r + 1] = CR
             ELSE n = Len(buf) /\ r = w

\* the CR that ended the full buffer was put back, and its LF follows
C16_Witness ==
  /\ rret.op = "readLine" /\ rret.kind = "ret" /\ rret.more
  /\ Len(rret.bytes) = Len(buf) - 1
  /\ taken + 2 <= Len(src) /\ src[taken + 1] = CR /\ src[taken + 2] = LF

PeekSizes == {0, 1, 3, MIN_BUF_SIZE + 2}

InitPeekSpec ==
  /\ InitReader({MIN_BUF_SIZE - 1, MIN_BUF_SIZE + 1},
                {PlainStream(0, n) : n \in {0, 2, MaxSrcLen}})
  /\ WriterOff /\ DelimOff /\ BytesOff /\ MuxOff

NextPeek ==
  \/ \E n \in PeekSizes : PeekCall(n) /\ UNCHANGED <<mvars, bvars, wvars, dvars, calls>>
  \/ \E n \in PeekSizes : ReadCall(n) /\ UNCHANGED <<mvars, bvars, wvars, dvars, calls>>
  \/ \E k \in Frags : SrcData(k) /\ UNCHANGED <<mvars, bvars, wvars, dvars, calls>>
  \/ SrcEof /\ UNCHANGED <<mvars, bvars, wvars, dvars, calls>>

SpecPeek == InitPeekSpec /\ [][NextPeek]_vars

\* C18: peek(n) consumes nothing: what it returns are the next unread
\* bytes, a read(p) with p.byteLength = n right after it returns the same
\* bytes, and with peeks in between the reads still deliver the stream
\* byte for byte.
C18_PeekThenRead ==
  /\ [](/\ (rret.op = "peek" /\ rret.kind = "ret")
             => rret.bytes = SubSeq(src, taken + 1, taken + Len(rret.bytes))
        /\ (rret.op = "read" /\ rret.kind = "ret")
             => rret.bytes = SubSeq(src, taken - Len(rret.bytes) + 1, taken)
        /\ (rret.op = "read" /\ rret.kind = "null") => taken = Len(src))
  /\ [][\A n \in PeekSizes :
          (/\ rpc = "idle" /\ rret.op = "peek" /\ rret.kind = "ret"
           /\ rret.val = n /\ ReadCall(n))
            => (/\ rret'.op = "read" /\ rret'.kind = "ret"
                /\ rret'.bytes = rret.bytes)]_vars

\* peek(3) has returned three bytes from inside the stream, after sliding
\* the one byte left in the buffer down and refilling it
C18_Witness ==
  /\ rret.op = "peek" /\ rret.kind = "ret" /\ rret.val = 3
  /\ Len(rret.bytes) = 3 /\ taken > 0 /\ r = 0 /\ w > 3

\* C19: peek(n) returns the next n unread bytes when the stream has them
\* and n is within the capacity; all the bytes that remain, fewer than n,
\* when the end of the stream is seen first; null when the end is seen and
\* nothing remains; and it throws BufferFullError with the buffered bytes,
\* a full buffer, when n is above the capacity and the stream does not end
\* before the buffer is full.
C19_PeekOutcomes ==
  LET n == rret.val
      left == Len(src) - taken
  IN  (rret.op = "peek" /\ rret.kind \in {"ret", "null", "throw"})
        => CASE n = 0 ->
                  \/ rret.kind = "ret" /\ rret.bytes = <<>>
                  \/ rret.kind = "null" /\ eof /\ left = 0
             [] n > 0 /\ n <= left /\ n <= Len(buf) ->
                  /\ rret.kind = "ret"
                  /\ rret.bytes = SubSeq(src, taken + 1, taken + n)
             [] n > 0 /\ left = 0 ->
                  rret.kind = "null" /\ eof
             [] n > left /\ left > 0 /\ left < Len(buf) ->
                  /\ rret.kind = "ret" /\ eof
                  /\ rret.bytes = SubSeq(src, taken + 1, Len(src))
             [] n > Len(buf) /\ left >= Len(buf) ->
                  /\ rret.kind = "throw" /\ rret.err = "BufferFull" /\ ~eof
                  /\ rret.haspartial
                  /\ rret.partial = SubSeq(src, taken + 1, taken + Len(buf))

\* peek(n) with n above the capacity threw BufferFullError from inside the
\* stream
C19_Witness ==
  /\ rret.op = "peek" /\ rret.kind = "throw" /\ rret.err = "BufferFull"
  /\ taken > 0 /\ Len(rret.partial) = Len(buf)

\* ---- readFull and readByte over a stream of distinct bytes
FullSizes == {0, 1, 3, MIN_BUF_SIZE, MaxSrcLen + 1}

InitFullSpec ==
  /\ InitReader({MIN_BUF_SIZE - 1, MIN_BUF_SIZE + 1},
                {PlainStream(0, n) : n \in {0, 2, MIN_BUF_SIZE, MaxSrcLen}})
  /\ WriterOff /\ DelimOff /\ BytesOff /\ MuxOff

NextFull ==
  \/ \E n \in FullSizes : ReadFullCall(n) /\ UNCHANGED <<mvars, bvars, wvars, dvars, calls>>
  \/ ReadByteCall /\ UNCHANGED <<mvars, bvars, wvars, dvars, calls>>
  \/ \E k \in Frags : SrcData(k) /\ UNCHANGED <<mvars, bvars, wvars, dvars, calls>>
  \/ SrcEof /\ UNCHANGED <<mvars, bvars, wvars, dvars, calls>>

SpecFull == InitFullSpec /\ [][NextFull]_vars

\* C20: readFull(p) returns p filled with the next p.length bytes of the
\* stream when that many are left; null when none is left; and with k
\* bytes left, 0 < k < p.length, it throws PartialReadError whose partial
\* is p[0, k), holding those k bytes.
C20_ReadFull ==
  LET n == rret.val
      left == Len(src) - Before
  IN  (rret.op = "readFull" /\ rret.kind \in {"ret", "null", "throw"})
        => CASE n <= left ->
                  /\ rret.kind = "ret"
                  /\ rret.bytes = SubSeq(src, Before + 1, Before + n)
                  /\ taken = Before + n
             [] n > left /\ left = 0 ->
                  rret.kind = "null" /\ taken = Before
             [] n > left /\ left > 0 ->
                  /\ rret.kind = "throw" /\ rret.err = "PartialRead"
                  /\ rret.haspartial
                  /\ rret.partial = SubSeq(src, Before + 1, Len(src))
                  /\ taken = Len(src)

\* PartialReadError from inside the stream, with a partial of more bytes
\* than the buffer held when the call began
C20_Witness ==
  /\ rret.op = "readFull" /\ rret.kind = "throw" /\ rret.err = "PartialRead"
  /\ Before > 0 /\ Len(rret.partial) > Len(buf) - Before

\* C21: readByte() returns the next byte of the stream and moves the
\* position by one; once the end of the stream has been signalled and
\* nothing is buffered it returns null, on that call and on every later
\* one.
C21_ReadByte ==
  (rret.op = "readByte" /\ rret.kind \in {"ret", "null", "throw"})
    => IF Before < Len(src)
       THEN /\ rret.kind = "ret"
            /\ rret.val = src[Before + 1]
            /\ rret.bytes = <<src[Before + 1]>>
            /\ taken = Before + 1
       ELSE /\ rret.kind = "null"
            /\ eof /\ r = w
            /\ taken = Before

\* readByte() returned the first byte of a refill that followed a slide
C21_Witness ==
  /\ rret.op = "readByte" /\ rret.kind = "ret"
  /\ taken > Len(buf) /\ r = 1 /\ rret.val = src[taken]

\* C22: read(p) reads the underlying reader at most once. It does not
\* read it when p is empty (it returns 0 and changes nothing) or when
\* unread bytes are buffered; otherwise it reads it once, into p when the
\* buffer is empty and p is at least as large as the buffer, which leaves
\* buf, r and w as they were, or else into the buffer; whatever that one
\* read answers, read(p) returns.
C22_OneSourceRead ==
  [][/\ \A n \in DestSizes :
          (rpc = "idle" /\ ReadCall(n))
            => IF n = 0
               THEN /\ rpc' = "idle"
                    /\ rret'.kind = "ret" /\ rret'.val = 0
                    /\ UNCHANGED <<buf, r, w, eof, pos>>
               ELSE IF r # w
                    THEN rpc' = "idle" /\ rret'.kind = "ret"
               ELSE IF n >= Len(buf)
                    THEN rpc' = "direct" /\ UNCHANGED <<buf, r, w>>
               ELSE rpc' = "one"
     /\ (rpc \in {"direct", "one"} /\ rloc.op = "read")
          => /\ rpc' = "idle"
             /\ rpc = "direct"
                  => /\ UNCHANGED <<buf, r, w>>
                     /\ rret'.bytes = SubSeq(src, pos + 1, pos')
     /\ rpc = "idle" => pos' = pos]_vars

\* read(p) has returned a buffer's worth of bytes read straight into p,
\* the internal buffer never written
C22_Witness ==
  /\ rret.op = "read" /\ rret.kind = "ret"
  /\ rret.val >= Len(buf) /\ buf = Zeros(Len(buf))

\* C23: when the underlying reader fails during a refill inside
\* readSlice, the error is rethrown with a partial: the bytes buffered at
\* the point of the failure.
C23_SlicePartial ==
  (rret.op = "readSlice" /\ rret.kind = "throw" /\ rret.err \in {"E1", "NoProgress"})
    => /\ rret.haspartial
       /\ rret.partial = SubSeq(buf, r + 1, w)

\* ============================================================ bytes/mod.ts
\* Indices are the source's (0-based); At gives undefined outside the array.

\* the inner while loop of indexOf: the value of `matched` when it ends
RECURSIVE MatchForward(_, _, _, _, _)
MatchForward(source, pat, pin, matched, j) ==
  IF matched < Len(pat)
  THEN IF At(source, j + 1) # At(pat, j + 1 - pin)
       THEN matched
       ELSE MatchForward(source, pat, pin, matched + 1, j + 1)
  ELSE matched

IndexOfHitFirstByte(source, pat, i) == At(source, i) = At(pat, 0)
\* a candidate position i of indexOf's for loop is a match
IndexOfHit(source, pat, i) ==
  /\ At(source, i) = At(pat, 0)
  /\ MatchForward(source, pat, i, 1, i) = Len(pat)

\* the for loop of indexOf from i on
RECURSIVE IndexOfLoop(_, _, _)
IndexOfLoop(source, pat, i) ==
  IF i < Len(source)
  THEN IF IndexOfHit(source, pat, i) THEN i
       ELSE IndexOfLoop(source, pat, i + 1)
  ELSE -1

indexOf(source, pat, start) ==
  IF start >= Len(source) THEN -1
  ELSE IndexOfLoop(source, pat, IF start < 0 THEN 0 ELSE start)

\* indexOf(source, pat) != -1
contains(source, pat) == indexOf(source, pat, 0) # -1

\* the inner while loop of lastIndexOf
RECURSIVE MatchBackward(_, _, _, _, _)
MatchBackward(source, pat, pin, matched, j) ==
  IF matched < Len(pat)
  THEN IF At(source, j - 1) # At(pat, Len(pat) - 1 - (pin - (j - 1)))
       THEN matched
       ELSE MatchBackward(source, pat, pin, matched + 1, j - 1)
  ELSE matched

LastIndexOfHitLastByte(source, pat, i) ==
  At(source, i) = At(pat, Len(pat) - 1)
\* a candidate position i of lastIndexOf's for loop is a match
LastIndexOfHit(source, pat, i) ==
  /\ At(source, i) = At(pat, Len(pat) - 1)
  /\ MatchBackward(source, pat, i, 1, i) = Len(pat)

\* the for loop of lastIndexOf from i down
RECURSIVE LastIndexOfLoop(_, _, _)
LastIndexOfLoop(source, pat, i) ==
  IF i >= 0
  THEN IF LastIndexOfHit(source, pat, i) THEN i - Len(pat) + 1
       ELSE LastIndexOfLoop(source, pat, i - 1)
  ELSE -1

lastIndexOf(source, pat, start) ==
  IF start < 0 THEN -1
  ELSE LastIndexOfLoop(source, pat,
                       IF start >= Len(source) THEN Len(source) - 1 ELSE start)

\* the loop of equals from i on
RECURSIVE EqualsLoop(_, _, _)
EqualsLoop(a, b, i) ==
  IF i < Len(b)
  THEN IF At(a, i) # At(b, i) THEN FALSE ELSE EqualsLoop(a, b, i + 1)
  ELSE TRUE

equals(a, b) == IF Len(a) # Len(b) THEN FALSE ELSE EqualsLoop(a, b, 0)

\* the loop of startsWith from i on
RECURSIVE StartsWithLoop(_, _, _)
StartsWithLoop(source, prefix, i) ==
  IF i < Len(prefix)
  THEN IF At(source, i) # At(prefix, i) THEN FALSE
       ELSE StartsWithLoop(source, prefix, i + 1)
  ELSE TRUE

startsWithAvailable(source, prefix) ==
  StartsWithLoop(source, TakeFirst(prefix, Min(Len(prefix), Len(source))), 0)
startsWith(source, prefix) == StartsWithLoop(source, prefix, 0)

\* the loop of endsWith from (srci, sfxi) down
RECURSIVE EndsWithLoop(_, _, _, _)
EndsWithLoop(source, suffix, srci, sfxi) ==
  IF sfxi >= 0
  THEN IF At(source, srci) # At(suffix, sfxi) THEN FALSE
       ELSE EndsWithLoop(source, suffix, srci - 1, sfxi - 1)
  ELSE TRUE

endsWith(source, suffix) ==
  EndsWithLoop(source, suffix, Len(source) - 1, Len(suffix) - 1)

RepeatStepOnce(nb, bp) == nb
\* the body of repeat's doubling loop: copy(nb.slice(0, bp), nb, bp)
RepeatStep(nb, bp) == Copy(TakeFirst(nb, bp), nb, bp).dst

\* for (; bp < nb.length; bp *= 2)
RECURSIVE RepeatLoop(_, _)
RepeatLoop(nb, bp) ==
  IF bp < Len(nb) THEN RepeatLoop(RepeatStep(nb, bp), bp * 2) ELSE nb

\* repeat(origin, count) for an integer count; origin.length * count stays
\* far below 2^53, so the overflow test of the source never fires
repeat(origin, count) ==
  IF count = 0 THEN [err |-> "none", out |-> <<>>]
  ELSE IF count < 0 THEN [err |-> "RangeError", out |-> <<>>]
  ELSE LET nb == Zeros(Len(origin) * count)
           first == Copy(origin, nb, 0)
       IN  [err |-> "none", out |-> RepeatLoop(first.dst, first.n)]

\* output.set(b, index), the bytes of b fitting into output from index on
TypedSet(output, b, index) ==
  [i \in 1..Len(output) |->
     IF i > index /\ i <= index + Len(b) THEN b[i - index] ELSE output[i]]

\* index += b.length
ConcatAdvance(b, index) == index + Len(b)

\* the second loop of concat from the k-th argument on
RECURSIVE ConcatLoop(_, _, _, _)
ConcatLoop(bufs, k, output, index) ==
  IF k <= Len(bufs)
  THEN ConcatLoop(bufs, k + 1, TypedSet(output, bufs[k], index),
                  ConcatAdvance(bufs[k], index))
  ELSE output

\* the first loop of concat: the sum of the lengths
RECURSIVE ConcatLength(_, _)
ConcatLength(bufs, k) ==
  IF k <= Len(bufs) THEN Len(bufs[k]) + ConcatLength(bufs, k + 1) ELSE 0

concat(bufs) == ConcatLoop(bufs, 1, Zeros(ConcatLength(bufs, 1)), 0)

\* the arrays the functions are called with
ByteVals == {1, 2}
ByteSeqs == SeqsUpTo(ByteVals, MaxBytesLen)
Starts == -1..(MaxBytesLen + 1)
Pieces == SeqsUpTo(ByteVals, MaxPieceLen)

BytesIdle == bcall.op = "none"

IndexOfCall(source, pat, start) ==
  /\ BytesIdle
  /\ bcall' = [NoBytes EXCEPT !.op = "indexOf", !.a = source, !.b = pat,
                              !.n = start, !.val = indexOf(source, pat, start)]

ContainsCall(source, pat) ==
  /\ BytesIdle
  /\ bcall' = [NoBytes EXCEPT !.op = "contains", !.a = source, !.b = pat,
                              !.ok = contains(source, pat)]

LastIndexOfCall(source, pat, start) ==
  /\ BytesIdle
  /\ bcall' = [NoBytes EXCEPT !.op = "lastIndexOf", !.a = source, !.b = pat,
                              !.n = start,
                              !.val = lastIndexOf(source, pat, start)]

EqualsCall(a, b) ==
  /\ BytesIdle
  /\ bcall' = [NoBytes EXCEPT !.op = "equals", !.a = a, !.b = b,
                              !.ok = equals(a, b)]

StartsWithCall(source, prefix) ==
  /\ BytesIdle
  /\ bcall' = [NoBytes EXCEPT !.op = "startsWith", !.a = source, !.b = prefix,
                              !.ok = startsWith(source, prefix)]

EndsWithCall(source, suffix) ==
  /\ BytesIdle
  /\ bcall' = [NoBytes EXCEPT !.op = "endsWith", !.a = source, !.b = suffix,
                              !.ok = endsWith(source, suffix)]

RepeatCall(origin, count) ==
  /\ BytesIdle
  /\ bcall' = [NoBytes EXCEPT !.op = "repeat", !.a = origin, !.n = count,
                              !.out = repeat(origin, count).out,
                              !.err = repeat(origin, count).err]

ConcatCall(bufs) ==
  /\ BytesIdle
  /\ bcall' = [NoBytes EXCEPT !.op = "concat", !.list = bufs,
                              !.out = concat(bufs)]

\* dst.set(src, off) throws a RangeError when src does not fit
CopyCall(source, dst, off) ==
  /\ BytesIdle
  /\ bcall' = [NoBytes EXCEPT
                 !.op = "copy", !.a = source, !.b = dst, !.n = off,
                 !.val = Copy(source, dst, off).n,
                 !.out = Copy(source, dst, off).dst,
                 !.err = IF CopyOff(dst, off) + CopyCount(source, dst, off)
                              > Len(dst)
                         THEN "RangeError" ELSE "none"]

\* the caller takes the outcome
BytesDone ==
  /\ ~BytesIdle
  /\ bcall' = NoBytes

NextBytes ==
  \/ BytesIdle /\ \E source \in ByteSeqs, pat \in ByteSeqs, start \in Starts :
       IndexOfCall(source, pat, start) /\ UNCHANGED <<wvars, dvars, rvars, mvars>>
  \/ BytesIdle /\ \E source \in ByteSeqs, pat \in ByteSeqs :
       ContainsCall(source, pat) /\ UNCHANGED <<wvars, dvars, rvars, mvars>>
  \/ BytesIdle /\ \E source \in ByteSeqs, pat \in ByteSeqs, start \in Starts :
       LastIndexOfCall(source, pat, start) /\ UNCHANGED <<wvars, dvars, rvars, mvars>>
  \/ BytesIdle /\ \E a \in ByteSeqs, b \in ByteSeqs :
       EqualsCall(a, b) /\ UNCHANGED <<wvars, dvars, rvars, mvars>>
  \/ BytesIdle /\ \E source \in ByteSeqs, prefix \in ByteSeqs :
       StartsWithCall(source, prefix) /\ UNCHANGED <<wvars, dvars, rvars, mvars>>
  \/ BytesIdle /\ \E source \in ByteSeqs, suffix \in ByteSeqs :
       EndsWithCall(source, suffix) /\ UNCHANGED <<wvars, dvars, rvars, mvars>>
  \/ BytesIdle /\ \E origin \in ByteSeqs, count \in -1..MaxCount :
       RepeatCall(origin, count) /\ UNCHANGED <<wvars, dvars, rvars, mvars>>
  \/ BytesIdle /\ \E bufs \in SeqsUpTo(Pieces, MaxBufs) :
       ConcatCall(bufs) /\ UNCHANGED <<wvars, dvars, rvars, mvars>>
  \/ BytesIdle /\ \E source \in ByteSeqs, dst \in ByteSeqs, off \in Starts :
       CopyCall(source, dst, off) /\ UNCHANGED <<wvars, dvars, rvars, mvars>>
  \/ BytesDone /\ UNCHANGED <<wvars, dvars, rvars, mvars>>

InitBytesSpec == BytesOff /\ MuxOff /\ WriterOff /\ DelimOff /\ ReaderOff

SpecBytes == InitBytesSpec /\ [][NextBytes]_vars

\* ----------------------------------------------------- bytes/mod.ts claims

\* pat occurs contiguously in source at the 0-based index i
Occurs(source, pat, i) ==
  /\ i >= 0 /\ i + Len(pat) <= Len(source)
  /\ SubSeq(source, i + 1, i + Len(pat)) = pat

\* C24: for a non-empty pattern, indexOf(source, pattern, start) is the
\* smallest index i >= max(start, 0) at which pattern occurs in source, and
\* -1 when there is none or start >= source.length; contains(source, pattern)
\* is false exactly when indexOf(source, pattern) is -1, and source from the
\* returned index on starts with pattern.
C24_IndexOf ==
  /\ (bcall.op = "indexOf" /\ bcall.b # <<>>)
       => LET from == Max(bcall.n, 0)
              hits == {i \in from..Len(bcall.a) : Occurs(bcall.a, bcall.b, i)}
          IN  /\ hits = {} => bcall.val = -1
              /\ hits # {} => /\ bcall.val \in hits
                              /\ \A i \in hits : bcall.val <= i
                              /\ startsWith(DropFirst(bcall.a, bcall.val), bcall.b)
              /\ bcall.n >= Len(bcall.a) => bcall.val = -1
  /\ (bcall.op = "contains" /\ bcall.b # <<>>)
       => /\ bcall.ok = (indexOf(bcall.a, bcall.b, 0) # -1)
          /\ bcall.ok = (\E i \in 0..Len(bcall.a) : Occurs(bcall.a, bcall.b, i))

C24_Witness ==
  /\ bcall.op = "indexOf" /\ Len(bcall.b) = 2
  /\ bcall.n = 1 /\ bcall.val = 1
  /\ Occurs(bcall.a, bcall.b, 0)

\* the greatest member of a non-empty set of integers, -1 for the empty set
Last(S) == IF S = {} THEN -1 ELSE CHOOSE i \in S : \A k \in S : k <= i

\* C25 as stated: for a non-empty pattern, lastIndexOf(source, pattern,
\* start) is the index of the rightmost occurrence of pattern in source that
\* begins at or before start, and -1 when there is none.
C25_LastBeginsBeforeStart ==
  (bcall.op = "lastIndexOf" /\ bcall.b # <<>>)
    => bcall.val = Last({i \in 0..Len(bcall.a) :
                           Occurs(bcall.a, bcall.b, i) /\ i <= bcall.n})

\* C25: for a non-empty pattern, lastIndexOf(source, pattern, start) is the
\* start index of the rightmost occurrence of pattern in source that lies
\* wholly at or before start (its last byte is at an index <= start), and
\* -1 when there is none.
C25_LastEndsBeforeStart ==
  (bcall.op = "lastIndexOf" /\ bcall.b # <<>>)
    => bcall.val = Last({i \in 0..Len(bcall.a) :
                           /\ Occurs(bcall.a, bcall.b, i)
                           /\ i + Len(bcall.b) - 1 <= bcall.n})

C25_Witness ==
  /\ bcall.op = "lastIndexOf" /\ Len(bcall.b) = 2
  /\ bcall.n = 1 /\ bcall.val = 0
  /\ Occurs(bcall.a, bcall.b, 1)

\* C26: copy(src, dst, off) clamps off into [0, dst.length], writes exactly
\* k = min(src.length, dst.length - off) bytes, src[0..k) into
\* dst[off..off+k), returns k, changes no other byte of dst, keeps the length
\* of dst and does not throw; with off >= dst.length it writes nothing and
\* returns 0.
C26_Copy ==
  bcall.op = "copy"
    => LET source == bcall.a
           dst == bcall.b
           off == IF bcall.n < 0 THEN 0
                  ELSE IF bcall.n > Len(dst) THEN Len(dst) ELSE bcall.n
           k == IF Len(source) < Len(dst) - off THEN Len(source)
                ELSE Len(dst) - off
       IN  /\ bcall.err = "none"
           /\ bcall.val = k
           /\ Len(bcall.out) = Len(dst)
           /\ \A i \in 0..(Len(dst) - 1) :
                bcall.out[i + 1] = IF i >= off /\ i < off + k
                                   THEN source[i - off + 1] ELSE dst[i + 1]
           /\ bcall.n >= Len(dst) => (bcall.val = 0 /\ bcall.out = dst)

C26_Witness ==
  /\ bcall.op = "copy" /\ bcall.n = 1
  /\ Len(bcall.a) = 3 /\ Len(bcall.b) = 3 /\ bcall.val = 2
  /\ bcall.out # bcall.b

\* the arrays of a list joined end to end
RECURSIVE Joined(_)
Joined(bufs) == IF bufs = <<>> THEN <<>> ELSE Head(bufs) \o Joined(Tail(bufs))

\* C27: for an integer count >= 0, repeat(origin, count) returns a buffer
\* of length origin.length * count whose byte at index i is
\* origin[i mod origin.length], that is count copies of origin joined, also
\* when count is not a power of two; repeat(x, 0) is empty, repeat(x, 3)
\* equals concat(x, x, x), and a negative count fails with a RangeError.
C27_Repeat ==
  /\ (bcall.op = "repeat" /\ bcall.n >= 0)
       => /\ bcall.err = "none"
          /\ Len(bcall.out) = Len(bcall.a) * bcall.n
          /\ \A i \in 0..(Len(bcall.out) - 1) :
               bcall.out[i + 1] = bcall.a[(i % Len(bcall.a)) + 1]
          /\ bcall.out = Joined([k \in 1..bcall.n |-> bcall.a])
          /\ bcall.n = 0 => bcall.out = <<>>
          /\ bcall.n = 3 => bcall.out = concat(<<bcall.a, bcall.a, bcall.a>>)
  /\ (bcall.op = "repeat" /\ bcall.n < 0) => bcall.err = "RangeError"
  /\ bcall.op = "concat" => bcall.out = Joined(bcall.list)

C27_Witness ==
  /\ bcall.op = "repeat" /\ bcall.n = 3
  /\ bcall.a = <<1, 2>> /\ bcall.out = <<1, 2, 1, 2, 1, 2>>

\* C28: startsWith(source, prefix) is true exactly when source is at least
\* as long as prefix and its first prefix.length bytes equal prefix;
\* endsWith(source, suffix) is true exactly when source is at least as long
\* as suffix and its last suffix.length bytes equal suffix. A source shorter
\* than a non-empty affix gives false.
C28_Affixes ==
  /\ bcall.op = "startsWith"
       => /\ bcall.ok = (/\ Len(bcall.a) >= Len(bcall.b)
                         /\ SubSeq(bcall.a, 1, Len(bcall.b)) = bcall.b)
          /\ (Len(bcall.a) < Len(bcall.b)) => ~bcall.ok
  /\ bcall.op = "endsWith"
       => /\ bcall.ok = (/\ Len(bcall.a) >= Len(bcall.b)
                         /\ SubSeq(bcall.a, Len(bcall.a) - Len(bcall.b) + 1,
                                   Len(bcall.a)) = bcall.b)
          /\ (Len(bcall.a) < Len(bcall.b)) => ~bcall.ok

C28_Witness ==
  /\ bcall.op = "startsWith" /\ ~bcall.ok
  /\ bcall.a = <<1>> /\ bcall.b = <<1, 2>>

\* the length of the longest proper prefix of pat that is also a suffix of
\* pat[0..i] (i 0-based)
LongestBorder(pat, i) ==
  Last({k \in 0..i : SubSeq(pat, 1, k) = SubSeq(pat, i + 2 - k, i + 1)})

\* C29: for every non-empty delimiter of length L, createLPS returns an
\* array of length L whose entry i is the length of the longest proper
\* prefix of the pattern that is also a suffix of pattern[0..i].
C29_LpsTable ==
  /\ <>(dpc # "lps")
  /\ [](dpc # "lps"
          => /\ Len(dlps) = Len(dpat)
             /\ \A i \in 0..(Len(dpat) - 1) :
                  dlps[i + 1] = LongestBorder(dpat, i))

\* ---- _fill(), called by itself and by readByte, readSlice, readLine and
\* peek, over an underlying reader that may return 0
InitFillSpec ==
  /\ InitReader({MIN_BUF_SIZE - 1, MIN_BUF_SIZE + 1},
                {PlainStream(0, n) : n \in {0, 2, MaxSrcLen}})
  /\ WriterOff /\ DelimOff /\ BytesOff /\ MuxOff

NextFill ==
  \/ FillCall /\ Counted /\ UNCHANGED <<mvars, bvars, wvars, dvars>>
  \/ ReadByteCall /\ Counted /\ UNCHANGED <<mvars, bvars, wvars, dvars>>
  \/ ReadSliceCall(LF) /\ Counted /\ UNCHANGED <<mvars, bvars, wvars, dvars>>
  \/ ReadLineCall /\ Counted /\ UNCHANGED <<mvars, bvars, wvars, dvars>>
  \/ \E n \in {2, MIN_BUF_SIZE + 2} : PeekCall(n) /\ Counted /\ UNCHANGED <<mvars, bvars, wvars, dvars>>
  \/ \E k \in Frags : SrcData(k) /\ UNCHANGED <<mvars, bvars, wvars, dvars, calls>>
  \/ SrcEof /\ UNCHANGED <<mvars, bvars, wvars, dvars, calls>>
  \/ SrcZero /\ UNCHANGED <<mvars, bvars, wvars, dvars, calls>>

SpecFill == InitFillSpec /\ [][NextFill]_vars

\* C30: _fill() on a buffer that is not full slides the unread bytes to the
\* start (r = 0, content and order kept) and then reads the source at most
\* MAX_CONSECUTIVE_EMPTY_READS times: a read signalling the end sets eof and
\* ends it, a read of k > 0 bytes extends w by k and ends it, a read of 0
\* bytes is followed by another read unless it was the 100th, after which
\* _fill() throws; so the reads left to a suspended _fill() go down with
\* every read of 0 bytes, and readByte, readSlice, readLine and peek end in
\* an error when the source returns 0 forever. With w = capacity after the
\* slide _fill() throws without reading.
C30_Fill ==
  /\ [](rpc = "fill"
          => /\ r = 0 /\ w < Len(buf)
             /\ rloc.i \in 1..MAX_CONSECUTIVE_EMPTY_READS)
  /\ [][/\ (rpc = "idle" /\ rpc' = "fill")
             => /\ r' = 0 /\ w' = w - r
                /\ SubSeq(buf', 1, w') = SubSeq(buf, r + 1, w)
                /\ rloc'.i = MAX_CONSECUTIVE_EMPTY_READS
                /\ UNCHANGED <<pos, eof>>
        /\ (rpc = "idle" /\ FillCall /\ w - r >= Len(buf))
             => /\ rpc' = "idle" /\ rret'.kind = "throw"
                /\ rret'.err = "FillFullBuffer"
                /\ UNCHANGED <<pos, eof>>
        /\ (rpc = "fill" /\ SrcZero)
             => IF rloc.i > 1
                THEN /\ rpc' = "fill" /\ rloc'.i = rloc.i - 1
                     /\ UNCHANGED <<buf, r, w, eof, pos>>
                ELSE /\ rpc' = "idle" /\ rret'.kind = "throw"
                     /\ rret'.op = rloc.op
                     /\ UNCHANGED <<buf, r, w, eof, pos>>
        /\ (rpc = "fill" /\ SrcEof)
             => /\ eof' /\ rpc' = "idle"
                /\ UNCHANGED <<w, pos>>
        /\ \A k \in 0..(MIN_BUF_SIZE + 1) :
             (rpc = "fill" /\ SrcData(k))
               => /\ k > 0 /\ w' = w + k /\ pos' = pos + k
                  /\ SubSeq(buf', w + 1, w + k) = SubSeq(src, pos + 1, pos + k)
                  /\ SubSeq(buf', 1, w) = SubSeq(buf, 1, w)
                  /\ eof' = eof
                  /\ rpc' = "fill" => rloc'.i = MAX_CONSECUTIVE_EMPTY_READS
                  /\ rloc.op = "_fill" => rpc' = "idle"]_vars

C30_Witness ==
  /\ rret.op = "peek" /\ rret.kind = "throw" /\ rret.err = "NoProgress"
  /\ rret.partial # <<>> /\ r = 0

\* the chunks with the delimiter d after each of them
RECURSIVE Delimited(_, _)
Delimited(chunks, d) ==
  IF chunks = <<>> THEN <<>> ELSE Head(chunks) \o d \o Delimited(Tail(chunks), d)

\* C31: when the reader signals the end of the stream, readDelim yields
\* exactly one more chunk, holding every byte read and not yet yielded (the
\* bytes after the last matched delimiter), and ends; a chunk is yielded
\* otherwise only on a delimiter match, so the stream yields one chunk more
\* than it has matches, and the chunks with the delimiter between them are
\* the stream.
C31_FinalChunk ==
  /\ [](dpc \in {"read", "scan"}
          => Delimited(dout, dpat) \o dinput = SubSeq(dsrc, 1, dpos))
  /\ [](dpc = "done"
          => /\ dout # <<>>
             /\ Delimited(SubSeq(dout, 1, Len(dout) - 1), dpat)
                  \o dout[Len(dout)] = dsrc)
  /\ [][/\ dpc # "done"
        /\ (dpc = "read" /\ dpos = Len(dsrc))
             => (dout' = Append(dout, dinput) /\ dpc' = "done")
        /\ (dpc = "read" /\ dpos < Len(dsrc)) => dout' = dout
        /\ dpc = "lps" => dout' = dout
        /\ (dpc = "scan" /\ dout' # dout)
             => /\ Len(dout') = Len(dout) + 1
                /\ dmatch + 1 = Len(dpat)
                /\ SubSeq(dinput, dinspect + 2 - Len(dpat), dinspect + 1) = dpat]_vars

C31_Witness ==
  /\ dpc = "done" /\ Len(dout) = 3
  /\ dout[3] # <<>> /\ Len(dpat) = 2

\* ---- readDelim over a reader that may also return a negative count
NextDelimNeg ==
  \/ NextDelim
  \/ DelimAbort /\ UNCHANGED <<wvars, rvars, bvars, mvars>>

SpecDelimNeg == InitDelimSpec /\ [][NextDelimNeg]_vars

\* C32: a read returning a negative count makes readDelim return at once:
\* nothing is thrown, nothing more is yielded, the bytes read and not yet
\* yielded are dropped, and the chunks yielded before stay as they were.
C32_SilentAbort ==
  /\ [](dpc = "aborted"
          => Delimited(dout, dpat) \o dinput = SubSeq(dsrc, 1, dpos))
  /\ [][/\ dpc # "aborted"
        /\ (dpc = "read" /\ DelimAbort)
             => (dpc' = "aborted" /\ dout' = dout /\ dpos' = dpos)]_vars

C32_Witness ==
  /\ dpc = "aborted"
  /\ dout # <<>> /\ dinput # <<>>

\* C33: readLine turns only the BufferFull failure of readSlice into a
\* (partial line, more) result; when readSlice fails with any other error,
\* such as an error thrown by the underlying reader, readLine throws that
\* same error.
C33_LineRethrows ==
  (rret.op = "readLine" /\ rret.kind = "throw")
    => rret.err \in {"E1", "NoProgress"}

\* ---- BufWriter with calls of two callers that may overlap: a caller may
\* start a call while the call of the other is suspended on the sink
NextOverlap ==
  \/ \E c \in Callers, len \in 1..MaxData :
       WriteCall(c, len) /\ UNCHANGED <<dvars, rvars, bvars, mvars>>
  \/ \E c \in Callers, n \in 1..MaxData :
       DirectDone(c, n) /\ UNCHANGED <<dvars, rvars, bvars, mvars>>
  \/ \E c \in Callers : SpillDone(c) /\ UNCHANGED <<dvars, rvars, bvars, mvars>>
  \/ \E c \in Callers : FlushCall(c) /\ UNCHANGED <<dvars, rvars, bvars, mvars>>
  \/ \E c \in Callers : FlushDone(c) /\ UNCHANGED <<dvars, rvars, bvars, mvars>>

SpecOverlap == InitWriterSpec /\ [][NextOverlap]_vars

\* every call has returned, the last of them a flush() that found the
\* writer without error
Flushed ==
  /\ Quiet /\ werr = NoErr /\ used = 0
  /\ \E c \in Callers : wret[c] = Returned("flush", 0)

\* C34: as long as no call has started while another was suspended, a
\* writer whose calls have all returned, ending with a flush, has given the
\* sink exactly the accepted data in call order.
C34_SerialIsSafe ==
  (Flushed /\ ~overlapped) => sink = accepted

\* after overlapping calls and a final flush the sink lacks accepted bytes
C34_Witness ==
  /\ Flushed /\ overlapped
  /\ sink # accepted
  /\ Len(sink) < Len(accepted)

\* C35: after every completed write or flush on a writer that has not
\* failed, what the sink has received followed by buf[0, usedBufferBytes)
\* is the data accepted by write() since construction or the last reset, in
\* call order; a write that spills hands the sink the buffered bytes before
\* any byte of its remaining data, and a write goes directly to the sink
\* only when the buffer is empty.
C35_SinkThenBuffer ==
  /\ (Quiet /\ werr = NoErr /\ wret[1].kind = "ret"
        /\ wret[1].op \in {"write", "flush"})
       => sink \o SubSeq(wbuf, 1, used) = accepted
  /\ werr = NoErr => sink = SubSeq(accepted, 1, Len(sink))
  /\ wpc[1] = "spill"
       => /\ wview[1] = SubSeq(wbuf, 1, used)
          /\ used > 0
          /\ sink \o wview[1] \o DropFirst(wdata[1], wn[1]) = accepted
  /\ wpc[1] = "direct"
       => /\ used = 0
          /\ sink \o wdata[1] = accepted

\* a write that found bytes buffered went through a flush and then a direct
\* write, and returned
C35_Witness ==
  /\ Quiet /\ werr = NoErr
  /\ wret[1].op = "write" /\ wret[1].kind = "ret" /\ touched[1]
  /\ Len(wcall[1]) > Len(wbuf) + 1
  /\ Len(accepted) > Len(wcall[1])
  /\ used > 0

\* C36: createLPS returns for every non-empty delimiter, so readDelim
\* reaches its first read of the reader.
C36_LpsTerminates == <>(dpc = "read")

\* ======================================================== MuxAsyncIterator
\* An iterator is given by its script: how many values it yields and how it
\* ends. Its j-th value is ValueOf(k, j); it rejects with ErrorOf(k).
Iters == 1..MaxIters
ValueOf(k, j) == 10 * k + j
ErrorOf(k) == 100 + k

\* iteratorCount = 0; yields = []; throws = []; signal = deferred()
NewMux == [count |-> 0, yields |-> <<>>, throws |-> <<>>, signal |-> FALSE]

\* the state of the mux, its iterators, its generator and its consumer as
\* one value
MuxSt == [mux |-> mux, mit |-> mit, gen |-> mgen, seen |-> mseen]

MuxGoes(s) ==
  /\ mux' = s.mux /\ mit' = s.mit /\ mgen' = s.gen /\ mseen' = s.seen

InitMux(ends, maxlen) ==
  /\ mux = NewMux
  /\ mit \in [Iters -> [len : 0..maxlen, end : ends, produced : {0},
                        pending : {0}, added : {FALSE}, ended : {FALSE}]]
  /\ mgen = [pc |-> "new", i |-> 0]
  /\ mseen = [vals |-> <<>>, errs |-> <<>>]

CallNextTwice(s, k) == [s EXCEPT !.mit[k].pending = @ + 2]
\* callIteratorNext(iterator) up to its await: iterator.next() is called
CallNext(s, k) == [s EXCEPT !.mit[k].pending = @ + 1]

\* add(iterator): ++this.iteratorCount; this.callIteratorNext(iterator)
AddIterator(s, k) ==
  CallNext([s EXCEPT !.mux.count = @ + 1, !.mit[k].added = TRUE], k)

ResolveNot(s) == s
\* this.signal.resolve()
Resolve(s) == [s EXCEPT !.mux.signal = TRUE]

\* callIteratorNext after its await, iterator.next() having given done
SettleDone(s, k) ==
  [s EXCEPT !.mux.count = @ - 1, !.mit[k].pending = @ - 1,
            !.mit[k].ended = TRUE]

\* callIteratorNext after its await, iterator.next() having given a value,
\* reported done, or rejected; then this.signal.resolve()
Settle(s, k) ==
  LET it == s.mit[k]
  IN  Resolve(
        IF it.ended \/ (it.produced = it.len /\ it.end = "done")
        THEN SettleDone(s, k)
        ELSE IF it.produced < it.len
        THEN [s EXCEPT !.mux.yields =
                         Append(@, [iterator |-> k,
                                    value |-> ValueOf(k, it.produced + 1)]),
                       !.mit[k].produced = @ + 1,
                       !.mit[k].pending = @ - 1]
        ELSE [s EXCEPT !.mux.throws = Append(@, ErrorOf(k)),
                       !.mit[k].pending = @ - 1,
                       !.mit[k].ended = TRUE])

\* this.yields.length = 0; this.signal = deferred()
ResetSignal(s) == [s EXCEPT !.mux.yields = <<>>, !.mux.signal = FALSE]

\* while (this.iteratorCount > 0) { await this.signal; ...
WhileTop(s) ==
  IF s.mux.count > 0 THEN [s EXCEPT !.gen = [pc |-> "await", i |-> 0]]
  ELSE [s EXCEPT !.gen = [pc |-> "done", i |-> 0]]

ForLoopOne(s, i) ==
  IF i < Len(s.mux.yields) /\ i = 0
  THEN [s EXCEPT !.gen = [pc |-> "yield", i |-> i],
                 !.seen.vals = Append(@, s.mux.yields[i + 1].value)]
  ELSE IF Len(s.mux.throws) > 0
  THEN [s EXCEPT !.gen = [pc |-> "thrown", i |-> i],
                 !.seen.errs = Append(@, s.mux.throws[1])]
  ELSE WhileTop(ResetSignal(s))
ForLoopThrowsFirst(s, i) ==
  IF Len(s.mux.throws) > 0
  THEN [s EXCEPT !.gen = [pc |-> "thrown", i |-> i],
                 !.seen.errs = Append(@, s.mux.throws[1])]
  ELSE IF i < Len(s.mux.yields)
  THEN [s EXCEPT !.gen = [pc |-> "yield", i |-> i],
                 !.seen.vals = Append(@, s.mux.yields[i + 1].value)]
  ELSE WhileTop(ResetSignal(s))
\* the for loop of iterate() from index i to its next suspension: the yield
\* of yields[i], or past the loop the throw of the first of throws, or the
\* reset and the next turn of the while loop
ForLoop(s, i) ==
  IF i < Len(s.mux.yields)
  THEN [s EXCEPT !.gen = [pc |-> "yield", i |-> i],
                 !.seen.vals = Append(@, s.mux.yields[i + 1].value)]
  ELSE IF Len(s.mux.throws) > 0
  THEN [s EXCEPT !.gen = [pc |-> "thrown", i |-> i],
                 !.seen.errs = Append(@, s.mux.throws[1])]
  ELSE WhileTop(ResetSignal(s))

\* ---- actions
\* mux.add(iterator)
MuxAdd(k) ==
  /\ ~mit[k].added
  /\ mgen.pc \in {"new", "await", "yield"}
  /\ MuxGoes(AddIterator(MuxSt, k))

\* the consumer calls next() of the generator: the first time iterate()
\* starts, later it goes on after its yield with callIteratorNext(iterator)
MuxPull ==
  /\ mgen.pc \in {"new", "yield"}
  /\ MuxGoes(IF mgen.pc = "new" THEN WhileTop(MuxSt)
             ELSE ForLoop(CallNext(MuxSt, mux.yields[mgen.i + 1].iterator),
                          mgen.i + 1))

\* the signal the generator awaits has been resolved
MuxWake ==
  /\ mgen.pc = "await"
  /\ mux.signal
  /\ MuxGoes(ForLoop(MuxSt, 0))

\* iterator k answers the oldest next() it has not answered
IterSettle(k) ==
  /\ mit[k].pending > 0
  /\ MuxGoes(Settle(MuxSt, k))

NextMux ==
  \/ \E k \in Iters : MuxAdd(k) /\ UNCHANGED <<wvars, dvars, rvars, bvars>>
  \/ MuxPull /\ UNCHANGED <<wvars, dvars, rvars, bvars>>
  \/ MuxWake /\ UNCHANGED <<wvars, dvars, rvars, bvars>>
  \/ \E k \in Iters : IterSettle(k) /\ UNCHANGED <<wvars, dvars, rvars, bvars>>

\* ---- iterators that end without throwing
InitMuxSpec ==
  /\ InitMux({"done"}, MaxVals)
  /\ WriterOff /\ DelimOff /\ ReaderOff /\ BytesOff

SpecMux == InitMuxSpec /\ [][NextMux]_vars

\* ------------------------------------------------ MuxAsyncIterator claims

\* the values of iterator k among those the consumer has received, in the
\* order it received them
SeenOf(k) ==
  LET FromK(v) == v \div 10 = k
  IN  SelectSeq(mseen.vals, FromK)

\* the first n values of iterator k, in the order it produces them
FirstVals(k, n) == [j \in 1..n |-> ValueOf(k, j)]

\* the values of iterator k that are queued in yields and not yet yielded:
\* those behind the index i of the for loop
QueuedOf(k) ==
  Cardinality({j \in 1..Len(mux.yields) :
                 /\ mux.yields[j].iterator = k
                 /\ (mgen.pc = "yield" => j > mgen.i + 1)
                 /\ (mgen.pc = "thrown" => j > mgen.i)})

\* C37: when no iterator throws, the consumer receives the values of each
\* iterator in the order the iterator produced them, none twice; every
\* value produced is received or still queued; and when the iteration has
\* ended every value of every added iterator has been received once.
C37_ExactlyOnce ==
  /\ \A k \in Iters :
       /\ SeenOf(k) = FirstVals(k, Len(SeenOf(k)))
       /\ Len(SeenOf(k)) + QueuedOf(k) = mit[k].produced
       /\ ~mit[k].added => mit[k].produced = 0
  /\ mgen.pc = "done"
       => \A k \in Iters :
            mit[k].added => SeenOf(k) = FirstVals(k, mit[k].len)
  /\ mgen.pc # "thrown"

C37_Witness ==
  /\ mgen.pc = "done"
  /\ \A k \in Iters : mit[k].added /\ mit[k].len = MaxVals
  /\ Len(mseen.vals) = MaxIters * MaxVals
  /\ mseen.vals[1] = ValueOf(2, 1) /\ mseen.vals[2] = ValueOf(1, 1)
  /\ mseen.vals[3] = ValueOf(1, 2)

\* ---- the same with a consumer that keeps pulling, iterators that answer
\* every next() and a generator that runs when its signal is resolved
SpecMuxFair ==
  /\ SpecMux
  /\ WF_mvars(MuxPull)
  /\ WF_mvars(MuxWake)
  /\ \A k \in Iters : WF_mvars(IterSettle(k))

\* C38: when every added iterator ends without throwing and the consumer
\* keeps pulling, iterate() completes; while the generator waits with a
\* value queued or with iteratorCount 0 its signal is resolved, and it
\* waits on an unresolved signal only while some next() is outstanding;
\* iterate() of a mux without iterators completes at the first pull.
C38_Completes ==
  /\ <>(mgen.pc = "done")
  /\ [](mgen.pc = "await"
          => /\ (mux.yields # <<>> \/ mux.count = 0) => mux.signal
             /\ ~mux.signal => \E k \in Iters : mit[k].pending > 0)
  /\ [][(mgen.pc = "new" /\ mux.count = 0 /\ MuxPull)
          => mgen'.pc = "done"]_vars

C38_Witness ==
  /\ mgen.pc = "await" /\ mux.count = 0 /\ mux.signal
  /\ Len(mseen.vals) = MaxIters * MaxVals

\* ---- iterators that end with done or with a rejected next()
InitMuxErrSpec ==
  /\ InitMux({"done", "throw"}, MaxErrVals)
  /\ WriterOff /\ DelimOff /\ ReaderOff /\ BytesOff

SpecMuxErr == InitMuxErrSpec /\ [][NextMux]_vars

SpecMuxErrFair ==
  /\ SpecMuxErr
  /\ WF_mvars(MuxPull)
  /\ WF_mvars(MuxWake)
  /\ \A k \in Iters : WF_mvars(IterSettle(k))

\* the next() of iterator k has rejected
Rejected(k) == \E j \in 1..Len(mux.throws) : mux.throws[j] = ErrorOf(k)

\* the consumer has had the error of iterator k thrown from the iteration
Received(k) == \E j \in 1..Len(mseen.errs) : mseen.errs[j] = ErrorOf(k)

ReportedDone(k) == mit[k].ended /\ mit[k].end = "done"

\* the generator is suspended at the yield of a value of iterator k
YieldingOf(k) ==
  IF mgen.pc = "yield" /\ mux.yields[mgen.i + 1].iterator = k THEN 1 ELSE 0

\* C40: every iterator has at most one of: an outstanding next(), a value
\* queued and not yet yielded, a value at whose yield the generator is
\* suspended; next() is called when the iterator is added and when the
\* generator goes on after the yield of its value, never else;
\* iteratorCount is not negative and is the number of added iterators that
\* have not reported done.
C40_OneOutstanding ==
  /\ [](/\ \A k \in Iters :
             /\ mit[k].pending \in 0..1
             /\ mit[k].pending + QueuedOf(k) + YieldingOf(k) <= 1
             /\ ~mit[k].added => mit[k].pending = 0
        /\ mux.count >= 0
        /\ mux.count
             = Cardinality({k \in Iters : mit[k].added /\ ~ReportedDone(k)}))
  /\ [][\A k \in Iters :
          mit'[k].pending > mit[k].pending
            => \/ ~mit[k].added /\ mit'[k].added
               \/ /\ YieldingOf(k) = 1
                  /\ mux.yields[mgen.i + 1].value
                       = ValueOf(k, mit[k].produced)
                  /\ SeenOf(k) = FirstVals(k, mit[k].produced)]_vars

C40_Witness ==
  /\ mit[1].pending = 1 /\ mit[1].produced = 1
  /\ SeenOf(1) = FirstVals(1, 1)
  /\ mit[2].added /\ ReportedDone(2)
  /\ mux.count = 1

====
